---------------------------- MODULE Spec2Model ----------------------------
(***************************************************************************)
(* Order validation, batching and submission pipeline of the Estfor        *)
(* marketplace front end: InputValidator.checkRateLimit (the sliding       *)
(* window admission gate) and MarketplaceService.createBatchOrders with    *)
(* its private stages #validateAndPrepareOrders, #ensureApprovals and      *)
(* #executeBatchTransaction.                                               *)
(*                                                                         *)
(* JavaScript runs one flow at a time and a flow gives up control only at  *)
(* an await.  Every action below is therefore one synchronous segment of   *)
(* the code: from the resolution (or rejection) of the awaited call named  *)
(* by pc up to the next await or up to the return of createBatchOrders.    *)
(***************************************************************************)
EXTENDS Integers, Sequences, FiniteSets, TLC

(***************************************************************************)
(* Bounds of the model and constants of the program.                       *)
(***************************************************************************)

\* Largest clock value (ms) the rate limiter harness explores.
RLMaxNow == 3000

\* maxRequests and windowMs handed to checkRateLimit by the harness.
RLMaxRequests == 2
RLWindowMs == 2000

\* Clock steps of the harness (ms): half seconds, so that the round-up of
\* the reset time to whole seconds is exercised.
RLTickSteps == {500, 1000}

\* createBatchOrders: checkRateLimit(key, 5, 60000).
BatchMaxRequests == 5
BatchWindowMs == 60000

\* app.transaction.* of the configuration.  maxBatchSize is 50 in the
\* shipped configuration; the model runs with a smaller configured value.
gasBufferPercent == 20
maxRetries == 3
maxBatchSize == 2

\* Largest clock value (ms) and the clock step of the pipeline.
MaxNow == 60000
TickMs == 60000

\* MAX_UINT24, and MAX_UINT72 in units of 10^15 wei (prices are kept in
\* thousandths of an ETH, so parseEther yields price * 10^15 wei).
MAX_UINT24 == 16777215
MAX_UINT72 == 4722366

\* JavaScript's undefined and null where a string is expected.  An object
\* is a record with exactly the fields the code gave it: a field the code
\* never set is not in the record's domain.
Undefined == "undefined"
Null == "null"
HasField(object, field) == field \in DOMAIN object

\* Wallet addresses; walletService.address is null while disconnected.
Address == "0xa1"
BatchKey(address) == IF address = Null THEN "batch-orders-null"
                     ELSE "batch-orders-0xa1"
Keys == {BatchKey(Address), BatchKey(Null)}

\* What the caller may pass as one order request (tokenId, priceInEth in
\* thousandths of an ETH, amount); side is left out and defaults to 'sell'.
\* The third asks 1,000,000 ETH, the largest price the input validator's
\* configured range lets through.
OrderRequests ==
    { [tokenId |-> 7, priceInEth |-> 1500, amount |-> 3],
      [tokenId |-> 2, priceInEth |-> 0, amount |-> 1],
      [tokenId |-> 5, priceInEth |-> 1000000000, amount |-> 1] }

\* A request for another token, in order whatever balanceOf reports.
OtherRequest == [tokenId |-> 8, priceInEth |-> 250, amount |-> 1]

\* The requests the loop of #validateAndPrepareOrders is run on when it is
\* taken on its own.
BuildRequests ==
    { [tokenId |-> 7, priceInEth |-> 1500, amount |-> 3],
      [tokenId |-> 7, priceInEth |-> 1500, amount |-> 1],
      [tokenId |-> 8, priceInEth |-> 250, amount |-> 3],
      [tokenId |-> 8, priceInEth |-> 250, amount |-> 1],
      [tokenId |-> 2, priceInEth |-> 0, amount |-> 1] }

\* The quantities asked for.
Amounts ==
    {r.amount : r \in OrderRequests \cup {OtherRequest} \cup BuildRequests}

\* What balanceOf may report (to createBatchOrders, and to the loop taken
\* on its own), and the balances #getUserBalance may hand on: these, and 0
\* when the read failed.
Balances == {1, 3}
BuildBalances == {1, 3}
BalanceValues == {0} \cup Balances \cup BuildBalances

\* What estimateGas may report to the k-th estimation of a call: another
\* value each time, none of which the buffer takes to a whole number.
GasEstimates(k) == {100001 + 7 * (k - 1)}

\* The message of an error a collaborator rejects with.
Rejection == "rejected"

VARIABLES
    now,          \* Date.now(), in ms
    rateLimits,   \* InputValidator.#rateLimits: key -> array of timestamps
    lastCheck,    \* what the last checkRateLimit call saw and returned
    rlAdmitted,   \* harness history: per key, the times of the admitted calls
    wallet,       \* walletService.connection: isConnected, isOnCorrectNetwork
    contract,     \* MarketplaceService.#contract / #itemsContract are set
    approved,     \* on chain: isApprovedForAll(owner, marketplace)
    call,         \* the activation of createBatchOrders: pc and locals
    flows,        \* concurrent activations of createBatchOrders: where each is
    build,        \* the loop of #validateAndPrepareOrders on its own
    probe,        \* the last call of validateInput: type, value and result
    script,       \* the standalone script: batchCreateSellOrders under way
    parked,       \* a second activation of createBatchOrders, at an await
    chain,        \* on chain: the limitOrders transactions that were mined
    controller,   \* AppController: #state and its activations under way
    api           \* ApiService: #cache, #pendingRequests and the requests made

rlVars == <<now, rateLimits, lastCheck, rlAdmitted>>

\* The variables of the flows and of the loop taken on their own.
harness == <<flows, build, probe, script, parked, chain, controller, api>>

vars == <<now, rateLimits, lastCheck, rlAdmitted, wallet, contract, approved,
          call, flows, build, probe, script, parked, chain, controller, api>>

(***************************************************************************)
(* InputValidator.checkRateLimit                                           *)
(***************************************************************************)

\* Math.ceil(a / b) for b > 0.
CeilDiv(a, b) == -((-a) \div b)

\* #rateLimits.get(key) after the has/set of a missing key.
History(limits, key) == IF key \in DOMAIN limits THEN limits[key] ELSE <<>>

RecentRequestsInclusive(requests, windowStart) ==
    SelectSeq(requests, LAMBDA timestamp : timestamp >= windowStart)

\* requests.filter(timestamp => timestamp > windowStart)
RecentRequests(requests, windowStart) ==
    SelectSeq(requests, LAMBDA timestamp : timestamp > windowStart)

ResetTimeMs(recentRequests, windowMs, t) ==
    recentRequests[1] + windowMs - t

ResetTimeFloor(recentRequests, windowMs, t) ==
    (recentRequests[1] + windowMs - t) \div 1000

\* Math.ceil((recentRequests[0] + windowMs - now) / 1000)
ResetTime(recentRequests, windowMs, t) ==
    CeilDiv(recentRequests[1] + windowMs - t, 1000)

IsLimitedOffByOne(recentRequests, maxRequests) ==
    Len(recentRequests) > maxRequests

\* recentRequests.length >= maxRequests
IsLimited(recentRequests, maxRequests) ==
    Len(recentRequests) >= maxRequests

CheckRateLimitForgets(limits, key, maxRequests, windowMs, t) ==
    LET recentRequests == RecentRequests(History(limits, key), t - windowMs)
    IN  [returned |->
            IF IsLimited(recentRequests, maxRequests)
            THEN [allowed |-> FALSE,
                  resetTime |-> ResetTime(recentRequests, windowMs, t)]
            ELSE [allowed |-> TRUE],
         stored |-> recentRequests]

CheckRateLimitCountsRejected(limits, key, maxRequests, windowMs, t) ==
    LET recentRequests == RecentRequests(History(limits, key), t - windowMs)
    IN  [returned |->
            IF IsLimited(recentRequests, maxRequests)
            THEN [allowed |-> FALSE,
                  resetTime |-> ResetTime(recentRequests, windowMs, t)]
            ELSE [allowed |-> TRUE],
         stored |-> Append(recentRequests, t)]

\* The whole call: the value returned and the array left in the map.
CheckRateLimit(limits, key, maxRequests, windowMs, t) ==
    LET windowStart == t - windowMs
        requests == History(limits, key)
        recentRequests == RecentRequests(requests, windowStart)
    IN  IF IsLimited(recentRequests, maxRequests)
        THEN [returned |->
                 [allowed |-> FALSE,
                  resetTime |-> ResetTime(recentRequests, windowMs, t)],
              stored |-> recentRequests]
        ELSE [returned |-> [allowed |-> TRUE],
              stored |-> Append(recentRequests, t)]

SetHistoryOwnOnly(limits, key, stored) ==
    [k \in DOMAIN limits \cup {key} |->
        IF k = key
        THEN SelectSeq(stored, LAMBDA timestamp :
                                  timestamp = stored[Len(stored)])
        ELSE limits[k]]

\* The map after the call.
SetHistory(limits, key, stored) ==
    [k \in DOMAIN limits \cup {key} |->
        IF k = key THEN stored ELSE limits[k]]

\* What a call saw and returned, kept for the properties.
CheckRecord(limits, key, maxRequests, windowMs, t) ==
    LET r == CheckRateLimit(limits, key, maxRequests, windowMs, t)
    IN  [key |-> key, at |-> t, maxRequests |-> maxRequests,
         windowMs |-> windowMs, before |-> History(limits, key),
         allowed |-> r.returned.allowed, returned |-> r.returned,
         stored |-> r.stored]

AdmittedAlways(rateLimitCheck) == TRUE

\* if (!rateLimitCheck.allowed) throw: whether the caller goes on.
Admitted(rateLimitCheck) == rateLimitCheck.returned.allowed

NoCheck == [key |-> Null, at |-> 0, maxRequests |-> 0, windowMs |-> 0,
            before |-> <<>>, allowed |-> TRUE, returned |-> [allowed |-> TRUE],
            stored |-> <<>>]

(***************************************************************************)
(* Models (BaseModel and its subclasses).  BaseModel's constructor calls   *)
(* its own private #validate and #transform; a subclass's private methods  *)
(* of the same name are other methods and are never called, so a model is  *)
(* the data it was built from, frozen.                                     *)
(***************************************************************************)

\* new TransactionResult(data): exactly the fields the caller passed.
TransactionResult(data) == data

\* MarketOrder.sideNumeric
SideNumeric(side) == IF side = "sell" THEN 0 ELSE 1

(***************************************************************************)
(* JavaScript numbers, as far as the validator tells them apart: NaN, the  *)
(* infinities, the finite numbers sign x (whole + frac x 10^-7) with       *)
(* 0 <= frac < 10^7, and the numbers sign x whole x 10^21 (kind "e21",     *)
(* 1 <= whole <= 9), which are written with an exponent.                   *)
(***************************************************************************)
Finite(sign, whole, frac) ==
    [kind |-> "finite", sign |-> sign, whole |-> whole, frac |-> frac]
NaN == [kind |-> "NaN", sign |-> 1, whole |-> 0, frac |-> 0]
Infinity(sign) == [kind |-> "Infinity", sign |-> sign, whole |-> 0, frac |-> 0]
E21(sign, digit) == [kind |-> "e21", sign |-> sign, whole |-> digit, frac |-> 0]

\* The number of an integer of the model.
Number(n) == IF n < 0 THEN Finite(-1, -n, 0) ELSE Finite(1, n, 0)

\* x is +0 or -0; the sign of x, that of a zero taken as positive.
IsZero(x) == x.kind = "finite" /\ x.whole = 0 /\ x.frac = 0
Sign(x) == IF IsZero(x) THEN 1 ELSE x.sign

\* |a| < |b| for numbers that are not NaN.
MagnitudeLess(a, b) ==
    LET level(x) == CASE x.kind = "finite" -> 0
                      [] x.kind = "e21" -> 1
                      [] x.kind = "Infinity" -> 2
    IN  \/ level(a) < level(b)
        \/ /\ level(a) = level(b)
           /\ \/ a.whole < b.whole
              \/ a.whole = b.whole /\ a.frac < b.frac

\* a < b and a === b of JavaScript: false whenever a or b is NaN.
Less(a, b) ==
    /\ a.kind # "NaN" /\ b.kind # "NaN"
    /\ IF Sign(a) # Sign(b) THEN Sign(a) < Sign(b)
       ELSE IF Sign(a) = 1 THEN MagnitudeLess(a, b)
       ELSE MagnitudeLess(b, a)
StrictEquals(a, b) ==
    /\ a.kind # "NaN" /\ b.kind # "NaN"
    /\ ~Less(a, b) /\ ~Less(b, a)

\* Number.isInteger
IsInteger(x) == x.kind \in {"finite", "e21"} /\ x.frac = 0

\* String(x) for a number x, kept as the parts of the numeral: its form,
\* its sign, the digits before the point (int), the digits after it (frac,
\* in units of 10^-7) and the exponent.  Numbers below 10^-6 and from
\* 10^21 on are written with an exponent ("5e-7", "1e+21"), both zeros
\* are written "0".
Numeral(form, sign, int, frac, exp) ==
    [form |-> form, sign |-> sign, int |-> int, frac |-> frac, exp |-> exp]
NumberToString(x) ==
    CASE x.kind = "NaN" -> Numeral("NaN", 1, 0, 0, 0)
      [] x.kind = "Infinity" -> Numeral("Infinity", x.sign, 0, 0, 0)
      [] x.kind = "e21" -> Numeral("exponent", x.sign, x.whole, 0, 21)
      [] IsZero(x) -> Numeral("decimal", 1, 0, 0, 0)
      [] x.kind = "finite" /\ x.whole = 0 /\ x.frac \in 1..9 ->
             Numeral("exponent", x.sign, x.frac, 0, -7)
      [] OTHER -> Numeral("decimal", x.sign, x.whole, x.frac, 0)

\* parseInt(string, 10): the sign and the digits up to the first character
\* that is not a digit (the point or the e); NaN when there is no digit.
ParseInt(string) ==
    IF string.form \in {"NaN", "Infinity"} THEN NaN
    ELSE Finite(string.sign, string.int, 0)

\* parseFloat(string): the whole numeral, exponent included.
ParseFloat(string) ==
    CASE string.form = "NaN" -> NaN
      [] string.form = "Infinity" -> Infinity(string.sign)
      [] string.form = "decimal" ->
             Finite(string.sign, string.int, string.frac)
      [] string.form = "exponent" /\ string.exp < 0 ->
             Finite(string.sign, 0, string.int)
      [] OTHER -> E21(string.sign, string.int)

\* validation.price and validation.quantity of the configuration (the
\* least price is 0.000001).
PriceMin == Finite(1, 0, 10)
PriceMax == 1000000
QuantityMin == 1
QuantityMax == 16777215

\* What a validation returns (the error messages are left out).
Invalid == [isValid |-> FALSE, sanitizedValue |-> Null]
Valid(sanitizedValue) == [isValid |-> TRUE, sanitizedValue |-> sanitizedValue]

ValidatePriceExclusive(value) ==
    LET numValue == ParseFloat(NumberToString(value))
    IN  IF numValue.kind = "NaN" THEN Invalid
        ELSE IF ~Less(PriceMin, numValue) THEN Invalid
        ELSE IF ~Less(numValue, Number(PriceMax)) THEN Invalid
        ELSE Valid(numValue)

\* InputValidator.#validatePrice for a number.
ValidatePrice(value) ==
    LET numValue == ParseFloat(NumberToString(value))
    IN  IF numValue.kind = "NaN" THEN Invalid
        ELSE IF Less(numValue, PriceMin) THEN Invalid
        ELSE IF Less(Number(PriceMax), numValue) THEN Invalid
        ELSE IF Less(numValue, Number(0)) \/ StrictEquals(numValue, Number(0))
        THEN Invalid
        ELSE Valid(numValue)

ValidateQuantityTruncates(value) ==
    LET intValue == ParseInt(NumberToString(value))
    IN  IF intValue.kind = "NaN" THEN Invalid
        ELSE IF Less(intValue, Number(QuantityMin)) THEN Invalid
        ELSE IF Less(Number(QuantityMax), intValue) THEN Invalid
        ELSE Valid(intValue)

\* InputValidator.#validateQuantity for a number.
ValidateQuantity(value) ==
    LET intValue == ParseInt(NumberToString(value))
    IN  IF intValue.kind = "NaN" THEN Invalid
        ELSE IF Less(intValue, Number(QuantityMin)) THEN Invalid
        ELSE IF Less(Number(QuantityMax), intValue) THEN Invalid
        ELSE IF \/ ~IsInteger(intValue)
                \/ ~StrictEquals(intValue, ParseFloat(NumberToString(value)))
        THEN Invalid
        ELSE Valid(intValue)

\* validation.tokenId.min of the configuration; its max is
\* Number.MAX_SAFE_INTEGER, which every finite number of the model is below.
TokenIdMin == 1
ExceedsTokenIdMax(x) == x.kind # "finite"

\* InputValidator.#validateTokenId for a number.
ValidateTokenId(value) ==
    LET intValue == ParseInt(NumberToString(value))
    IN  IF intValue.kind = "NaN" THEN Invalid
        ELSE IF Less(intValue, Number(TokenIdMin)) THEN Invalid
        ELSE IF ExceedsTokenIdMax(intValue) THEN Invalid
        ELSE Valid(intValue)

\* validateInput(value, type) for a number: a number is neither trimmed
\* nor escaped.
ValidateInput(value, type) ==
    CASE type = "price" -> ValidatePrice(value)
      [] type = "quantity" -> ValidateQuantity(value)
      [] type = "tokenId" -> ValidateTokenId(value)

\* UserBalance.canSell(quantity).canSell, for each balance and quantity of
\* the model (computed once).
CanSellTable ==
    [balance \in BalanceValues, quantity \in Amounts |->
        LET quantityValidation == ValidateInput(Number(quantity), "quantity")
        IN  /\ quantityValidation.isValid
            /\ ~Less(Number(balance), quantityValidation.sanitizedValue)]

\* UserBalance.canSell(quantity).canSell
CanSell(balance, quantity) == CanSellTable[balance, quantity]

(***************************************************************************)
(* MarketplaceService: the synchronous pieces of createBatchOrders.        *)
(***************************************************************************)

\* ethers.utils.parseEther of a price in thousandths of an ETH: price *
\* 10^15 wei, kept as the multiple of 10^15 wei.
ParseEther(priceInEth) == [e15 |-> priceInEth]

\* The order in contract format (lines 208-213).
ContractOrder(request) ==
    [side |-> SideNumeric("sell"),
     tokenId |-> request.tokenId,
     price |-> ParseEther(request.priceInEth),
     quantity |-> request.amount]

ValidateContractLimitsNoPrice(order) ==
    /\ ~(order.quantity > MAX_UINT24)
    /\ ~(order.quantity <= 0)

\* #validateContractLimits does not throw.
ValidateContractLimits(order) ==
    /\ ~(order.price.e15 > MAX_UINT72)
    /\ ~(order.quantity > MAX_UINT24)
    /\ ~(order.price.e15 <= 0)
    /\ ~(order.quantity <= 0)

GetUserBalanceKeepsRead(ok, read) == read

\* #getUserBalance: the balance balanceOf reported, or 0 when the read
\* failed (the catch of lines 257-263).
GetUserBalance(ok, read) == IF ok THEN read ELSE 0

PrepareItemPrepends(validatedOrders, request, balance) ==
    IF /\ CanSell(balance, request.amount)
       /\ ValidateContractLimits(ContractOrder(request))
    THEN <<ContractOrder(request)>> \o validatedOrders
    ELSE validatedOrders

\* One round of the loop of #validateAndPrepareOrders after the balance
\* was read: the order is pushed, or the error is caught and the item left.
PrepareItem(validatedOrders, request, balance) ==
    IF /\ CanSell(balance, request.amount)
       /\ ValidateContractLimits(ContractOrder(request))
    THEN Append(validatedOrders, ContractOrder(request))
    ELSE validatedOrders

GasLimitNoBuffer(gasEstimate) == gasEstimate

\* gasEstimate.mul(100 + gasBufferPercent).div(100)
GasLimit(gasEstimate) == (gasEstimate * (100 + gasBufferPercent)) \div 100

BuyOrdersReversed(orders) ==
    [i \in 1..Len(orders) |->
        [orders[Len(orders) + 1 - i] EXCEPT !.side = 1]]

\* orders.map(order => ({ ...order, side: 1 }))
BuyOrders(orders) == [i \in 1..Len(orders) |-> [orders[i] EXCEPT !.side = 1]]

\* The transaction the k-th attempt of a call submits, and the receipt of
\* its confirmation.
Tx(k) == [hash |-> <<"0xtx", k>>]
NoTx == [hash |-> <<>>]
Receipt(tx, gasLimit) == [blockNumber |-> tx.hash[2], gasUsed |-> gasLimit]

\* What #executeBatchTransaction returns when a transaction is confirmed.
ExecutionResult(side, tx, receipt) ==
    IF side = "sell"
    THEN [txHash |-> tx.hash,
          blockNumber |-> receipt.blockNumber,
          gasUsed |-> ToString(receipt.gasUsed)]
    ELSE [txHash |-> tx.hash,
          blockNumber |-> receipt.blockNumber,
          gasUsed |-> ToString(receipt.gasUsed),
          note |-> "Created BUY orders instead of SELL orders"]

\* Lines 162-169: the result of a call whose batch was confirmed.
SuccessResultNoHash(result, validatedOrders, t) ==
    TransactionResult(
        [success |-> TRUE,
         blockNumber |-> result.blockNumber, gasUsed |-> result.gasUsed,
         ordersCreated |-> Len(validatedOrders), timestamp |-> t])

SuccessResultNoCount(result, validatedOrders, t) ==
    TransactionResult(
        [success |-> TRUE, txHash |-> result.txHash,
         blockNumber |-> result.blockNumber, gasUsed |-> result.gasUsed,
         timestamp |-> t])

SuccessResult(result, validatedOrders, t) ==
    TransactionResult(
        [success |-> TRUE, txHash |-> result.txHash,
         blockNumber |-> result.blockNumber, gasUsed |-> result.gasUsed,
         ordersCreated |-> Len(validatedOrders), timestamp |-> t])

\* Lines 171-177: the result of a call in which something was thrown.
FailureResult(message, t) ==
    TransactionResult(
        [success |-> FALSE, error |-> message, timestamp |-> t])

\* What a createBatchOrders call did so far.
\* requested: the number of requests it was given; switchNetwork,
\* initializeContracts, balanceOf, isApprovedForAll, estimateGas, delay: how
\* often it called each; overLimits: the requests #validateContractLimits
\* threw on; approval: what happened in #ensureApprovals, in order;
\* setApprovalForAll: the approval transactions sent; attempts: the side of
\* each attempt, in order; confirmed: the receipts of the batch transactions
\* whose confirmation the call saw; raced: a balance was read while another
\* activation was under way.
NoCalls == [requested |-> 0, switchNetwork |-> 0, initializeContracts |-> 0,
            balanceOf |-> 0, overLimits |-> 0, raced |-> FALSE,
            isApprovedForAll |-> 0, approval |-> <<>>,
            setApprovalForAll |-> 0,
            estimateGas |-> 0, delay |-> 0, attempts |-> <<>>,
            confirmed |-> <<>>]

\* No call of createBatchOrders has been made (NoResult: no object yet).
NoResult == <<>>
NoCall == [pc |-> "idle", orderRequests |-> <<>>, idx |-> 0,
           validatedOrders |-> <<>>, side |-> "sell", attempt |-> 0,
           orders |-> <<>>, gasEstimate |-> 0,
           gasLimit |-> 0, tx |-> NoTx, lastError |-> Undefined,
           result |-> NoResult, results |-> 0, net |-> NoCalls]

\* The activation c is under way: called and not yet returned.
InFlight(c) == c.pc \notin {"idle", "done", "threw"}

\* The states of walletService.connection.
Disconnected == [isConnected |-> FALSE, isOnCorrectNetwork |-> FALSE]
WalletStates == {Disconnected,
                 [isConnected |-> TRUE, isOnCorrectNetwork |-> FALSE],
                 [isConnected |-> TRUE, isOnCorrectNetwork |-> TRUE]}

\* walletService.address
WalletAddress(w) == IF w.isConnected THEN Address ELSE Null

\* createBatchOrders returns res: its locals are gone, the result and the
\* record of the network calls it made remain.
Returned(c, res) ==
    [NoCall EXCEPT !.pc = "done", !.result = res, !.results = c.results + 1,
                   !.net = c.net]

\* An exception leaves createBatchOrders: there is no result.
Uncaught(c, message, t) == [NoCall EXCEPT !.pc = "threw", !.net = c.net]

\* Something was thrown inside the try of createBatchOrders.  A message is
\* the tuple of the pieces of its template.
Thrown(c, message, t) == Returned(c, FailureResult(message, t))

\* An attempt begins: estimateGas.limitOrders is called with the orders of
\* the side.
BeginAttempt(c, side, attempt) ==
    [c EXCEPT !.pc = "estimateGas", !.side = side, !.attempt = attempt,
              !.orders = IF side = "sell" THEN c.validatedOrders
                         ELSE BuyOrders(c.validatedOrders),
              !.gasEstimate = 0, !.gasLimit = 0, !.tx = NoTx,
              !.net.estimateGas = @ + 1,
              !.net.attempts = Append(@, side)]

\* estimateGas answered (lines 296-299, 323-326): the gas limit is formed
\* and limitOrders is called with it.
Estimated(c, gasEstimate) ==
    [c EXCEPT !.pc = "limitOrders", !.gasEstimate = gasEstimate,
              !.gasLimit = GasLimit(gasEstimate)]

\* #ensureApprovals has returned: #executeBatchTransaction starts.
ExecuteBatchTransaction(c) == BeginAttempt(c, "sell", 0)

\* What happened in #ensureApprovals is appended to its record.
Approval(c, event) == [c EXCEPT !.net.approval = Append(@, event)]

ApprovalFailedSwallowed(c, event, message, t) ==
    ExecuteBatchTransaction(Approval(c, event))

\* The catch of #ensureApprovals (lines 282-284).
ApprovalFailed(c, event, message, t) ==
    Thrown(Approval(c, event),
           <<"Failed to approve marketplace: ", message>>, t)

EnsureApprovalsAlways(c, isApproved) ==
    [Approval(Approval(c, IF isApproved THEN "isApprovedForAll: true"
                          ELSE "isApprovedForAll: false"),
              "setApprovalForAll")
        EXCEPT !.pc = "setApprovalForAll"]

\* #ensureApprovals once isApprovedForAll has answered (lines 273-280):
\* setApprovalForAll is called, or there is nothing to do and
\* createBatchOrders goes on.
EnsureApprovals(c, isApproved) ==
    IF ~isApproved
    THEN [Approval(Approval(c, "isApprovedForAll: false"),
                   "setApprovalForAll")
            EXCEPT !.pc = "setApprovalForAll"]
    ELSE ExecuteBatchTransaction(Approval(c, "isApprovedForAll: true"))

ApprovalSentNoWait(c) ==
    ExecuteBatchTransaction(
        [Approval(c, "sent") EXCEPT !.net.setApprovalForAll = @ + 1])

\* setApprovalForAll returned the transaction: await tx.wait() (line 279).
ApprovalSent(c) ==
    [Approval(c, "sent") EXCEPT !.pc = "approvalWait",
                                !.net.setApprovalForAll = @ + 1]

\* tx.wait() of the approval resolved: #ensureApprovals returns.
ApprovalConfirmed(c) == ExecuteBatchTransaction(Approval(c, "confirmed"))

\* The loops of #executeBatchTransaction move on after the attempt
\* c.attempt of side c.side: the next attempt of the side, the first of the
\* buy side, or the final throw.
NextAttemptSkipsBuy(c, t) ==
    IF c.attempt + 1 < maxRetries
    THEN BeginAttempt(c, c.side, c.attempt + 1)
    ELSE Thrown(c, <<"All transaction attempts failed: ", c.lastError>>, t)

NextAttemptEarlyBuy(c, t) ==
    IF c.side = "sell"
    THEN BeginAttempt(c, "buy", 0)
    ELSE IF c.attempt + 1 < maxRetries
         THEN BeginAttempt(c, c.side, c.attempt + 1)
         ELSE Thrown(c, <<"All transaction attempts failed: ", c.lastError>>,
                     t)

NextAttemptStuck(c, t) == c

NextAttemptCrashes(c, t) ==
    IF c.attempt + 1 < maxRetries
    THEN BeginAttempt(c, c.side, c.attempt + 1)
    ELSE IF c.side = "sell"
         THEN BeginAttempt(c, "buy", 0)
         ELSE Uncaught(c, <<"All transaction attempts failed: ", c.lastError>>,
                       t)

NextAttempt(c, t) ==
    IF c.attempt + 1 < maxRetries
    THEN BeginAttempt(c, c.side, c.attempt + 1)
    ELSE IF c.side = "sell"
         THEN BeginAttempt(c, "buy", 0)
         ELSE Thrown(c, <<"All transaction attempts failed: ", c.lastError>>,
                     t)

AttemptFailedAlwaysDelays(c, message, t) ==
    [c EXCEPT !.lastError = message, !.pc = "delay", !.net.delay = @ + 1]

AttemptFailedSubmitsAnyway(c, message, t) ==
    LET failed == [c EXCEPT !.lastError = message]
    IN  IF c.pc = "estimateGas"
        THEN [c EXCEPT !.pc = "limitOrders"]
        ELSE IF c.attempt < maxRetries - 1
             THEN [failed EXCEPT !.pc = "delay", !.net.delay = @ + 1]
             ELSE NextAttempt(failed, t)

\* The catch of an attempt (lines 308-315, 336-343).
AttemptFailed(c, message, t) ==
    LET failed == [c EXCEPT !.lastError = message]
    IN  IF c.attempt < maxRetries - 1
        THEN [failed EXCEPT !.pc = "delay", !.net.delay = @ + 1]
        ELSE NextAttempt(failed, t)

ConfirmedKeepsTrying(c, t) == NextAttempt(c, t)

\* tx.wait() resolved: #executeBatchTransaction returns and so does
\* createBatchOrders.
Confirmed(c, t) ==
    LET receipt == Receipt(c.tx, c.gasLimit)
        result == ExecutionResult(c.side, c.tx, receipt)
    IN  Returned(c, SuccessResult(result, c.validatedOrders, t))

PrepareFromEager(c, i, has, t) ==
    IF i <= Len(c.orderRequests) /\ Len(c.validatedOrders) = 0
    THEN [c EXCEPT !.pc = "balanceOf", !.idx = i,
                   !.net.balanceOf = IF has THEN @ + 1 ELSE @]
    ELSE IF Len(c.validatedOrders) = 0
         THEN Thrown(c, <<"No valid orders to create">>, t)
         ELSE [c EXCEPT !.pc = "isApprovedForAll", !.idx = 0,
                        !.orderRequests = <<>>,
                        !.net.isApprovedForAll = @ + 1]

PrepareFromAllowsEmpty(c, i, has, t) ==
    IF i <= Len(c.orderRequests)
    THEN [c EXCEPT !.pc = "balanceOf", !.idx = i,
                   !.net.balanceOf = IF has THEN @ + 1 ELSE @]
    ELSE [c EXCEPT !.pc = "isApprovedForAll", !.idx = 0,
                   !.orderRequests = <<>>,
                   !.net.isApprovedForAll = @ + 1]

\* The loop of #validateAndPrepareOrders reaches item i, or ends and
\* createBatchOrders goes on (lines 152-157); orderRequests is not read
\* again.
PrepareFrom(c, i, has, t) ==
    IF i <= Len(c.orderRequests)
    THEN [c EXCEPT !.pc = "balanceOf", !.idx = i,
                   !.net.balanceOf = IF has THEN @ + 1 ELSE @]
    ELSE IF Len(c.validatedOrders) = 0
         THEN Thrown(c, <<"No valid orders to create">>, t)
         ELSE [c EXCEPT !.pc = "isApprovedForAll", !.idx = 0,
                        !.orderRequests = <<>>,
                        !.net.isApprovedForAll = @ + 1]

ValidateAndPrepareOrdersTruncates(c, has, t) ==
    PrepareFrom([c EXCEPT !.orderRequests =
                    SubSeq(@, 1, IF Len(@) > maxBatchSize THEN maxBatchSize
                                 ELSE Len(@))],
                1, has, t)

\* #validateAndPrepareOrders up to its first await.
ValidateAndPrepareOrders(c, has, t) ==
    IF Len(c.orderRequests) > maxBatchSize
    THEN Thrown(c, <<"Too many orders. Maximum ", ToString(maxBatchSize),
                     " orders per batch.">>, t)
    ELSE PrepareFrom(c, 1, has, t)

\* #initializeContracts: whether the contracts exist afterwards (it returns
\* early without a connected wallet and its provider).
InitializeContracts(w, has) == has \/ w.isConnected

\* Lines 144-150: createBatchOrders once the network is the right one.
AfterNetworkCheck(c, w, has, t) ==
    ValidateAndPrepareOrders(
        [c EXCEPT !.net.initializeContracts = IF has THEN @ ELSE @ + 1],
        InitializeContracts(w, has), t)

\* The request lists a caller may pass: every list up to the cap, lists
\* of one more than the cap (of requests that are in order), and a list of
\* two requests in order for different tokens.
RequestLists ==
    UNION {[1..n -> OrderRequests] : n \in 0..maxBatchSize}
      \cup [1..(maxBatchSize + 1) -> {r \in OrderRequests : r.tokenId = 7}]
      \cup {<<r, OtherRequest>> : r \in {r \in OrderRequests : r.tokenId = 7}}

\* The concurrent activations of createBatchOrders (NumFlows of them), and
\* the clock of the specification that follows them: largest value and
\* step (ms).
NumFlows == 2
FlowMaxNow == 60000
FlowTickMs == 30000
Flows == 1..NumFlows

\* The longest request list the loop of #validateAndPrepareOrders is run
\* on when taken on its own.
BuildMaxLen == 3
BuildLists == UNION {[1..n -> BuildRequests] : n \in 0..BuildMaxLen}

\* The numbers validateInput is called with: around zero, around the least
\* and the largest price and the largest quantity, with and without a
\* fraction, of both signs, and the numbers that are not finite or are
\* written with an exponent.
ProbeWholes ==
    {0, 1, 2, 999999, 1000000, 1000001, 16777214, 16777215, 16777216}
ProbeFracs == {0, 1, 9, 10, 11, 5000000, 9999999}
Numbers ==
    {Finite(sign, whole, frac) :
        sign \in {1, -1}, whole \in ProbeWholes, frac \in ProbeFracs}
      \cup {NaN, Infinity(1), Infinity(-1), E21(1, 1), E21(-1, 1), E21(1, 5)}

\* validateInput has not been called.
NoProbe == [type |-> "none", value |-> NaN, result |-> Invalid]

\* The loop has not been run.  reads: what became of each balanceOf;
\* balances: what #getUserBalance handed to each round.
NoBuild == [requests |-> <<>>, reads |-> <<>>, balances |-> <<>>,
            validatedOrders |-> <<>>]

(***************************************************************************)
(* The standalone script (marketplace.js): batchCreateSellOrders and       *)
(* createSellOrder.                                                        *)
(***************************************************************************)

\* The longest list of orders the script is run on, the orders (price in
\* thousandths of an ETH) and what balanceOf may report.
ScriptMaxLen == 3
ScriptOrders ==
    { [tokenId |-> 7, amount |-> 3, priceInEth |-> 1500],
      [tokenId |-> 8, amount |-> 1, priceInEth |-> 250] }
ScriptLists == UNION {[1..n -> ScriptOrders] : n \in 0..ScriptMaxLen}
ScriptBalances == {1, 3}

\* possibleFunctions of createSellOrder, and those of them that
\* MARKETPLACE_ABI declares (the contract object has no other).
PossibleFunctions ==
    <<"createSellOrder", "sell", "placeSellOrder", "createOrder", "listItem">>
AbiFunctions == {"createSellOrder", "sell", "placeSellOrder"}

\* batchCreateSellOrders has not been called.  i: the order being
\* processed (from 1); fn: the function being tried (from 1); began: the
\* orders createSellOrder was called for, in the order of the calls.
NoScript == [pc |-> "idle", orders |-> <<>>, i |-> 0, fn |-> 0,
             lastError |-> Undefined, began |-> <<>>, results |-> <<>>,
             successCount |-> 0, errorCount |-> 0]

\* { tokenId, amount, priceInEth, ...result }
Pushed(order, result) ==
    [f \in {"tokenId", "amount", "priceInEth"} \cup DOMAIN result |->
        IF f \in DOMAIN result THEN result[f] ELSE order[f]]

OrderDoneStopsAtFailure(s, result) ==
    LET pushed == [s EXCEPT
                     !.results = Append(@, Pushed(s.orders[s.i], result)),
                     !.successCount = IF result.success THEN @ + 1 ELSE @,
                     !.errorCount = IF result.success THEN @ ELSE @ + 1]
    IN  IF s.i < Len(s.orders) /\ result.success
        THEN [pushed EXCEPT !.pc = "pause"]
        ELSE [pushed EXCEPT !.pc = "returned"]

\* createSellOrder returned result (lines 360-379, 394-399): it is pushed
\* and counted, and the loop pauses before the next order or, after the
\* last, batchCreateSellOrders returns.  createSellOrder catches whatever
\* is thrown in it, so the catch of the loop round is never entered.
OrderDone(s, result) ==
    LET pushed == [s EXCEPT
                     !.results = Append(@, Pushed(s.orders[s.i], result)),
                     !.successCount = IF result.success THEN @ + 1 ELSE @,
                     !.errorCount = IF result.success THEN @ ELSE @ + 1]
    IN  IF s.i < Len(s.orders)
        THEN [pushed EXCEPT !.pc = "pause"]
        ELSE [pushed EXCEPT !.pc = "returned"]

\* The catch of createSellOrder (lines 332-338).
SellFailed(s, message) ==
    OrderDone(s, [success |-> FALSE, error |-> message])

\* tx.wait() of the sell order resolved (lines 313-322).
SellConfirmed(s) ==
    OrderDone(s, [success |-> TRUE, txHash |-> <<"0xsell", s.i>>,
                  blockNumber |-> s.i, gasUsed |-> "21000"])

\* The loop over possibleFunctions from the k-th on (lines 294-330): the
\* names the contract does not have are passed over, the first it has is
\* called, and when none is left the failure is thrown.
RECURSIVE TryFrom(_, _)
TryFrom(s, k) ==
    IF k > Len(PossibleFunctions)
    THEN SellFailed(s, <<"All sell order functions failed. Last error: ",
                         IF s.lastError = Undefined THEN "Unknown error"
                         ELSE s.lastError>>)
    ELSE IF PossibleFunctions[k] \notin AbiFunctions
         THEN TryFrom(s, k + 1)
         ELSE [s EXCEPT !.pc = "send", !.fn = k]

\* The catch of one function (lines 323-327).
FunctionFailed(s, message) ==
    TryFrom([s EXCEPT !.lastError = message], s.fn + 1)

\* createSellOrder for the i-th order, up to its first await (lines
\* 351-358, 263-272).
CreateSellOrder(s, i) ==
    [s EXCEPT !.pc = "balanceOf", !.i = i, !.fn = 0, !.lastError = Undefined,
              !.began = Append(@, i)]

\* batchCreateSellOrders(orders) up to its first await, or to its return
\* when there is no order.
BatchCreateSellOrders(orders) ==
    IF Len(orders) = 0
    THEN [NoScript EXCEPT !.pc = "returned"]
    ELSE CreateSellOrder([NoScript EXCEPT !.orders = orders], 1)

(***************************************************************************)
(* AppController.  #state is replaced by every #updateState; an operation  *)
(* under way is a stack of frames, one for each async method that has not  *)
(* returned, the innermost last.  A method called with await runs to its   *)
(* own first await at once; when it has returned or thrown its frame stays *)
(* settled until the caller resumes.  state.orders, state.wallet and       *)
(* state.lastUpdated are left out, and with them loadMarketOrders.         *)
(***************************************************************************)

\* The most operations of the controller that are under way at once.
NumTasks == 2
Tasks == 1..NumTasks

\* The ids of the items apiService.fetchEstforItems resolves with.
ApiItems == <<7, 2>>

\* The request lists createSellOrders is called with: a valid request, and
\* the same followed by a request whose price is 0.
SellRequestLists ==
    { <<[tokenId |-> 7, priceInEth |-> 1500, amount |-> 3]>>,
      <<[tokenId |-> 7, priceInEth |-> 1500, amount |-> 3],
        [tokenId |-> 2, priceInEth |-> 0, amount |-> 1]>> }

\* new AppState(data): the data as passed.
AppState(data) == data

\* new Map(), and map.set(key, value).
EmptyMap == [key \in {} |-> 0]
MapSet(map, key, value) ==
    [k \in DOMAIN map \cup {key} |-> IF k = key THEN value ELSE map[k]]

\* What the last createSellOrders call that validated its requests was
\* given and kept, and whether loadPlayerItems had completed before.
NoSell == [requests |-> <<>>, validatedRequests |-> <<>>, loaded |-> FALSE]

\* #initializeState; no operation under way.  loaded: loadPlayerItems has
\* completed since the wallet connected.
NoController ==
    [state |-> AppState([isLoading |-> FALSE, error |-> Null,
                         items |-> <<>>, balances |-> EmptyMap]),
     tasks |-> [t \in Tasks |-> <<>>],
     loaded |-> FALSE,
     sell |-> NoSell]

\* #updateState(updates)
UpdateState(c, updates) ==
    [c EXCEPT !.state =
        AppState([f \in DOMAIN c.state |->
                     IF f \in DOMAIN updates THEN updates[f]
                     ELSE c.state[f]])]

\* The frame of a method at one of its awaits.
Frame(op, pc) ==
    [op |-> op, pc |-> pc, i |-> 0, items |-> <<>>, balances |-> EmptyMap,
     validatedRequests |-> <<>>]

Top(c, t) == c.tasks[t][Len(c.tasks[t])]
Push(c, t, frame) == [c EXCEPT !.tasks[t] = Append(@, frame)]
Pop(c, t) == [c EXCEPT !.tasks[t] = SubSeq(@, 1, Len(@) - 1)]
SetTop(c, t, frame) == [c EXCEPT !.tasks[t][Len(c.tasks[t])] = frame]

\* The innermost method of operation t returns (how = "resolved") or throws
\* (how = "rejected"): the operation is over, or the frame waits for the
\* caller's await to resume.
Finish(c, t, how) ==
    IF Len(c.tasks[t]) = 1 THEN Pop(c, t)
    ELSE SetTop(c, t, [Top(c, t) EXCEPT !.pc = how])

\* The message of the error a settled frame threw.
ErrorOf(frame) ==
    IF frame.op = "loadPlayerItems" THEN <<"Wallet not connected">>
    ELSE <<Rejection>>

\* this.#updateState({ isLoading: true, error: null })
Loading == [isLoading |-> TRUE, error |-> Null]

\* loadItems() up to await apiService.fetchEstforItems()
LoadItems(c, t) ==
    Push(UpdateState(c, Loading), t, Frame("loadItems", "fetchEstforItems"))

\* #getTokenBalance(tokenId)
GetTokenBalance(tokenId) == 0

\* loadPlayerItems after its loop.
PlayerItemsLoaded(c, t) ==
    Finish([UpdateState(c, [balances |-> Top(c, t).balances,
                            isLoading |-> FALSE])
               EXCEPT !.loaded = TRUE],
           t, "resolved")

\* loadPlayerItems() up to the first await this.#getTokenBalance(item.id)
LoadPlayerItems(c, t, connected) ==
    IF ~connected
    THEN Finish(Push(c, t, Frame("loadPlayerItems", "called")), t, "rejected")
    ELSE LET started ==
                 Push(UpdateState(c, Loading), t,
                      [Frame("loadPlayerItems", "getTokenBalance")
                          EXCEPT !.i = 1, !.items = c.state.items])
         IN  IF Len(c.state.items) = 0 THEN PlayerItemsLoaded(started, t)
             ELSE started

\* await this.#getTokenBalance(item.id) returns, and the loop goes on.
BalanceRead(c, t) ==
    LET f == Top(c, t)
        balance == GetTokenBalance(f.items[f.i])
        balances == IF balance > 0
                    THEN MapSet(f.balances, f.items[f.i], balance)
                    ELSE f.balances
        next == SetTop(c, t, [f EXCEPT !.balances = balances, !.i = @ + 1])
    IN  IF f.i = Len(f.items) THEN PlayerItemsLoaded(next, t) ELSE next

\* #loadInitialData() up to await this.loadItems()
LoadInitialData(c, t) ==
    LoadItems(Push(c, t, Frame("#loadInitialData", "loadItems")), t)

\* initialize() up to its await
Initialize(c, t, connected) ==
    LET started == Push(UpdateState(c, Loading), t,
                        Frame("initialize", "loading"))
    IN  IF connected THEN LoadInitialData(started, t)
        ELSE LoadItems(started, t)

\* connectWallet() up to await walletService.connect()
ConnectWallet(c, t) ==
    Push(UpdateState(c, Loading), t, Frame("connectWallet", "connect"))

\* A price of a request (in thousandths of an ETH) as a number.
PriceNumber(priceInEth) ==
    Finite(1, priceInEth \div 1000, (priceInEth % 1000) * 10000)

\* One round of the loop of #validateOrderRequests: the request is pushed.
KeepsRequest(request, balances) ==
    LET tokenIdValidation ==
            ValidateInput(Number(request.tokenId), "tokenId")
        priceValidation ==
            ValidateInput(PriceNumber(request.priceInEth), "price")
        quantityValidation ==
            ValidateInput(Number(request.amount), "quantity")
    IN  /\ tokenIdValidation.isValid
        /\ priceValidation.isValid
        /\ quantityValidation.isValid
        /\ LET id == tokenIdValidation.sanitizedValue.whole
               balance == IF id \in DOMAIN balances THEN balances[id] ELSE 0
           IN  ~Less(Number(balance), quantityValidation.sanitizedValue)

\* #validateOrderRequests(requests)
ValidateOrderRequests(requests, balances) ==
    LET kept == SelectSeq(requests, LAMBDA r : KeepsRequest(r, balances))
    IN  [i \in 1..Len(kept) |->
            [tokenId |-> kept[i].tokenId, priceInEth |-> kept[i].priceInEth,
             amount |-> kept[i].amount, side |-> "sell"]]

\* createSellOrders(orderRequests) up to await
\* marketplaceService.createBatchOrders(validatedRequests), or its throw.
\* No state of the controller has a balance in state.balances, so the await
\* is never reached and what follows it (lines 221-230) is not modelled.
CreateSellOrders(c, t, orderRequests, connected) ==
    IF ~connected THEN c
    ELSE LET validatedRequests ==
                 ValidateOrderRequests(orderRequests, c.state.balances)
             seen == [UpdateState(c, Loading) EXCEPT !.sell =
                         [requests |-> orderRequests,
                          validatedRequests |-> validatedRequests,
                          loaded |-> c.loaded]]
         IN  IF Len(validatedRequests) = 0
             THEN UpdateState(seen,
                      [isLoading |-> FALSE,
                       error |-> <<"No valid orders to create">>])
             ELSE Push(seen, t,
                       [Frame("createSellOrders", "createBatchOrders")
                           EXCEPT !.validatedRequests = validatedRequests])

\* loadItems after await apiService.fetchEstforItems()
ItemsFetched(c, t, ok) ==
    IF ok
    THEN Finish(UpdateState(c, [items |-> ApiItems, isLoading |-> FALSE]),
                t, "resolved")
    ELSE Finish(UpdateState(c, [isLoading |-> FALSE,
                                error |-> <<"Failed to load items: ",
                                            Rejection>>]),
                t, "rejected")

\* The await of a method resumes: the method it called has settled.
Resumed(c, t, connected) ==
    LET callee == Top(c, t)
        popped == Pop(c, t)
        caller == Top(popped, t)
        ok == callee.pc = "resolved"
        failed == UpdateState(popped, [isLoading |-> FALSE,
                                       error |-> ErrorOf(callee)])
    IN  CASE caller.op = "#loadInitialData" /\ caller.pc = "loadItems" ->
                 IF ok /\ connected
                 THEN LoadPlayerItems(
                          SetTop(popped, t,
                                 [caller EXCEPT !.pc = "loadPlayerItems"]),
                          t, connected)
                 ELSE Finish(popped, t, "resolved")
          [] caller.op = "#loadInitialData" /\ caller.pc = "loadPlayerItems" ->
                 Finish(popped, t, "resolved")
          [] caller.op = "initialize" ->
                 IF ok
                 THEN Finish(UpdateState(popped, [isLoading |-> FALSE]),
                             t, "resolved")
                 ELSE Finish(failed, t, "resolved")
          [] caller.op = "connectWallet" ->
                 Finish(UpdateState(popped, [isLoading |-> FALSE]),
                        t, "resolved")

(***************************************************************************)
(* ApiService.fetchEstforItems: the cache, the pending request and the     *)
(* promises of the requests that were made and whose owner, the call that  *)
(* made the request, has not yet resumed from its await.                   *)
(***************************************************************************)

\* The most requests made for the items, and the clock of the item fetches.
ApiMaxPromises == 12
ApiTickMs == 60000
ApiMaxNow == 360000

\* fetchEstforItems: cacheKey and the cache's time to live (lines 24, 42);
\* #fetchItemsFromApi: the rate limit of the requests (line 56).
CacheKey == "estfor-items"
ItemsTtlMs == 300000
ItemsKey == "api-items"
ItemsMaxRequests == 10
ItemsWindowMs == 60000

\* map.delete(key)
MapDelete(map, key) == [k \in DOMAIN map \ {key} |-> map[k]]

\* Nothing cached, nothing pending, no request made.  issued: the requests
\* made so far; last: what the last call of fetchEstforItems did.
NoApi == [cache |-> EmptyMap, pending |-> EmptyMap, promises |-> EmptyMap,
          issued |-> 0, last |-> [did |-> "none", promise |-> 0]]

\* #getFromCache(key): the data (hit) and the cache it leaves.
GetFromCache(cache, key, t) ==
    IF key \notin DOMAIN cache THEN [hit |-> FALSE, cache |-> cache]
    ELSE IF t > cache[key].expiry
    THEN [hit |-> FALSE, cache |-> MapDelete(cache, key)]
    ELSE [hit |-> TRUE, cache |-> cache]

\* #setCache(key, data, ttlMs)
SetCache(cache, key, data, ttlMs, t) ==
    MapSet(cache, key, [data |-> data, expiry |-> t + ttlMs])

HasPendingNever(pending, key) == FALSE

\* this.#pendingRequests.has(cacheKey)
HasPending(pending, key) == key \in DOMAIN pending

\* fetchEstforItems after await requestPromise: the owner of the request
\* caches the items, or throws, and removes the pending entry.
OwnerResumed(a, id, t) ==
    [a EXCEPT !.cache = IF a.promises[id] = "fulfilled"
                        THEN SetCache(@, CacheKey, ApiItems, ItemsTtlMs, t)
                        ELSE @,
              !.pending = MapDelete(@, CacheKey),
              !.promises = MapDelete(@, id)]

(***************************************************************************)
(* Initial state: the module has just been loaded.                         *)
(***************************************************************************)
Init ==
    /\ now = 0
    /\ rateLimits = [k \in {} |-> <<>>]
    /\ lastCheck = NoCheck
    /\ rlAdmitted = [k \in Keys |-> <<>>]
    /\ wallet = Disconnected
    /\ contract = FALSE
    /\ approved = FALSE
    /\ call = NoCall
    /\ flows = [f \in Flows |-> "idle"]
    /\ build = NoBuild
    /\ probe = NoProbe
    /\ script = NoScript
    /\ parked = NoCall
    /\ chain = {}
    /\ controller = NoController
    /\ api = NoApi

(***************************************************************************)
(* The rate limiter on its own: calls of checkRateLimit on the keys, with  *)
(* the clock advancing between them.                                       *)
(***************************************************************************)
RLTick ==
    /\ \E d \in RLTickSteps :
        /\ now + d <= RLMaxNow
        /\ now' = now + d
    /\ UNCHANGED <<rateLimits, lastCheck, rlAdmitted, harness>>
    /\ UNCHANGED <<wallet, contract, approved, call>>

RLCheck ==
    \E key \in Keys :
        LET rec == CheckRecord(rateLimits, key, RLMaxRequests, RLWindowMs, now)
        IN  /\ lastCheck' = rec
            /\ rateLimits' = SetHistory(rateLimits, key, rec.stored)
            /\ rlAdmitted' = IF rec.allowed
                             THEN [rlAdmitted EXCEPT ![key] = Append(@, now)]
                             ELSE rlAdmitted
            /\ UNCHANGED <<now, harness, wallet, contract, approved, call>>

RLNext == RLTick \/ RLCheck

RLSpec == Init /\ [][RLNext]_vars

(***************************************************************************)
(* The pipeline: calls of createBatchOrders, one at a time, with the       *)
(* collaborators answering or failing, the wallet changing and the clock   *)
(* advancing.                                                              *)
(***************************************************************************)

\* Time passes.  A call reads the clock when it is admitted and when it
\* returns; the time that passes during a call passes here after it.
Tick ==
    /\ call.pc \in {"idle", "done"}
    /\ now + TickMs <= MaxNow
    /\ now' = now + TickMs
    /\ UNCHANGED <<rateLimits, lastCheck, rlAdmitted, harness,
                   wallet, contract,
                   approved, call>>

\* The wallet connects, disconnects or changes chain (connect, disconnect,
\* #handleNetworkChange).  The call reads the wallet only in its first
\* segment and after switchNetwork.
WalletEvent ==
    /\ call.pc \in {"idle", "done", "switchNetwork"}
    /\ \E w \in WalletStates \ {wallet} : wallet' = w
    /\ UNCHANGED <<now, rateLimits, lastCheck, rlAdmitted, harness, contract,
                   approved, call>>

\* createBatchOrders(orderRequests) up to its first await or its return.
CreateBatchOrdersWith(orderRequests) ==
    /\ call.pc \in {"idle", "done", "threw"}
    /\  LET rateLimitCheck ==
                CheckRecord(rateLimits, BatchKey(WalletAddress(wallet)),
                            BatchMaxRequests, BatchWindowMs, now)
            c == [NoCall EXCEPT !.orderRequests = orderRequests,
                                !.net.requested = Len(orderRequests)]
        IN  /\ lastCheck' = rateLimitCheck
            /\ rateLimits' = SetHistory(rateLimits, rateLimitCheck.key,
                                        rateLimitCheck.stored)
            /\ IF ~Admitted(rateLimitCheck)
               THEN /\ call' = Thrown(c,
                                  <<"Rate limit exceeded. Try again in ",
                                    ToString(rateLimitCheck.returned.resetTime),
                                    " seconds.">>, now)
                    /\ UNCHANGED contract
               ELSE IF ~wallet.isConnected
               THEN /\ call' = Thrown(c, <<"Wallet not connected">>, now)
                    /\ UNCHANGED contract
               ELSE IF ~wallet.isOnCorrectNetwork
               THEN /\ call' = [c EXCEPT !.pc = "switchNetwork",
                                           !.net.switchNetwork = @ + 1]
                    /\ UNCHANGED contract
               ELSE /\ call' = AfterNetworkCheck(c, wallet, contract, now)
                    /\ contract' = InitializeContracts(wallet, contract)
    /\ UNCHANGED <<now, rlAdmitted, harness, wallet, approved>>

\* A caller calls createBatchOrders.
CreateBatchOrders ==
    \E orderRequests \in RequestLists : CreateBatchOrdersWith(orderRequests)

\* await walletService.switchNetwork()
SwitchNetworkReturns ==
    /\ call.pc = "switchNetwork"
    /\ \E ok \in BOOLEAN :
        IF ok
        THEN /\ call' = AfterNetworkCheck(call, wallet, contract, now)
             /\ contract' = InitializeContracts(wallet, contract)
        ELSE /\ call' = Thrown(call, <<Rejection>>, now)
             /\ UNCHANGED contract
    /\ UNCHANGED <<now, rateLimits, lastCheck, rlAdmitted, harness,
                   wallet, approved>>

\* await this.#getUserBalance(order.tokenId): the balance read, or 0 when
\* the read fails; then the rest of the loop round and the next round.
BalanceOfReturns ==
    /\ call.pc = "balanceOf"
    /\ \E ok \in BOOLEAN, read \in Balances :
        LET balance == GetUserBalance(ok /\ contract, read)
            request == call.orderRequests[call.idx]
            kept == PrepareItem(call.validatedOrders, request, balance)
            threw == /\ CanSell(balance, request.amount)
                     /\ ~ValidateContractLimits(ContractOrder(request))
        IN  call' = PrepareFrom(
                        [call EXCEPT !.validatedOrders = kept,
                                     !.net.raced = @ \/ InFlight(parked),
                                     !.net.overLimits =
                                         IF threw THEN @ + 1 ELSE @],
                        call.idx + 1, contract, now)
    /\ UNCHANGED <<now, rateLimits, lastCheck, rlAdmitted, harness,
                   wallet, contract,
                   approved>>

\* await this.#itemsContract.isApprovedForAll(...)
IsApprovedForAllReturns ==
    /\ call.pc = "isApprovedForAll"
    /\ \E ok \in BOOLEAN :
        call' = IF ~ok
                THEN ApprovalFailed(call, "isApprovedForAll failed",
                                    Rejection, now)
                ELSE EnsureApprovals(call, approved)
    /\ UNCHANGED <<now, rateLimits, lastCheck, rlAdmitted, harness,
                   wallet, contract,
                   approved>>

\* await this.#itemsContract.setApprovalForAll(marketplace, true)
SetApprovalForAllReturns ==
    /\ call.pc = "setApprovalForAll"
    /\ \E ok \in BOOLEAN :
        call' = IF ok
                THEN ApprovalSent(call)
                ELSE ApprovalFailed(call, "setApprovalForAll failed",
                                    Rejection, now)
    /\ UNCHANGED <<now, rateLimits, lastCheck, rlAdmitted, harness,
                   wallet, contract,
                   approved>>

\* await tx.wait() of the approval: confirmed, or the wait fails (and the
\* transaction may or may not have been mined).
ApprovalWaitReturns ==
    /\ call.pc = "approvalWait"
    /\ \E ok \in BOOLEAN, mined \in BOOLEAN :
        IF ok
        THEN /\ approved' = TRUE
             /\ call' = ApprovalConfirmed(call)
        ELSE /\ approved' = (approved \/ mined)
             /\ call' = ApprovalFailed(call, "wait failed", Rejection, now)
    /\ UNCHANGED <<now, rateLimits, lastCheck, rlAdmitted, harness,
                   wallet, contract>>

\* await this.#contract.estimateGas.limitOrders(orders)
EstimateGasReturns ==
    /\ call.pc = "estimateGas"
    /\ \/ \E gasEstimate \in GasEstimates(call.net.estimateGas) :
            call' = Estimated(call, gasEstimate)
       \/ call' = AttemptFailed(call, Rejection, now)
    /\ UNCHANGED <<now, rateLimits, lastCheck, rlAdmitted, harness,
                   wallet, contract,
                   approved>>

\* await this.#contract.limitOrders(orders, { gasLimit })
LimitOrdersReturns ==
    /\ call.pc = "limitOrders"
    /\ \/ call' = [call EXCEPT !.pc = "wait",
                                 !.tx = Tx(Len(call.net.attempts))]
       \/ call' = AttemptFailed(call, Rejection, now)
    /\ UNCHANGED <<now, rateLimits, lastCheck, rlAdmitted, harness,
                   wallet, contract,
                   approved>>

\* await tx.wait()
WaitReturns ==
    /\ call.pc = "wait"
    /\ \/ LET receipt == Receipt(call.tx, call.gasLimit)
              seen == [call EXCEPT !.net.confirmed =
                          Append(@, [hash |-> call.tx.hash,
                                     blockNumber |-> receipt.blockNumber,
                                     gasUsed |-> receipt.gasUsed,
                                     attempt |-> Len(call.net.attempts)])]
          IN  call' = Confirmed(seen, now)
       \/ call' = AttemptFailed(call, Rejection, now)
    /\ UNCHANGED <<now, rateLimits, lastCheck, rlAdmitted, harness,
                   wallet, contract,
                   approved>>

\* await this.#delay(retryDelay)
DelayReturns ==
    /\ call.pc = "delay"
    /\ call' = NextAttempt(call, now)
    /\ UNCHANGED <<now, rateLimits, lastCheck, rlAdmitted, harness,
                   wallet, contract,
                   approved>>

\* A pending collaborator call of the createBatchOrders call settles.
Settle ==
    \/ SwitchNetworkReturns
    \/ BalanceOfReturns
    \/ IsApprovedForAllReturns
    \/ SetApprovalForAllReturns
    \/ ApprovalWaitReturns
    \/ EstimateGasReturns
    \/ LimitOrdersReturns
    \/ WaitReturns
    \/ DelayReturns

Next == Tick \/ WalletEvent \/ CreateBatchOrders \/ Settle

Spec == Init /\ [][Next]_vars

\* Every collaborator call eventually returns or fails.
FairSpec == Spec /\ WF_vars(Settle)

(***************************************************************************)
(* Two activations of createBatchOrders for the same user and the same     *)
(* item, each one call.  Both are at an await most of the time; call is    *)
(* the one whose awaited call settles next and parked is the other.        *)
(***************************************************************************)

\* The request both calls are made with.
RaceRequests == <<CHOOSE r \in OrderRequests : r.tokenId = 7>>

\* An activation that has not been used is called.
RaceCalls ==
    /\ call.pc = "idle"
    /\ CreateBatchOrdersWith(RaceRequests)

\* The awaited call of the other activation is the next to settle (or the
\* other activation is the next to be called, while this one is under way).
Switch ==
    /\ parked.pc \notin {"done", "threw"}
    /\ InFlight(parked) \/ InFlight(call)
    /\ call' = parked
    /\ parked' = call
    /\ UNCHANGED <<now, rateLimits, lastCheck, rlAdmitted, wallet, contract,
                   approved, flows, build, probe, script, chain, controller, api>>

RaceNext == WalletEvent \/ RaceCalls \/ Switch \/ Settle

RaceSpec == Init /\ [][RaceNext]_vars

(***************************************************************************)
(* One call of createBatchOrders and the chain its transactions are sent   *)
(* to.  tx.wait() (lines 299, 325) resolves with the receipt only when the *)
(* transaction was mined; it rejects when the transaction reverted, and    *)
(* also when the provider fails or times out while polling for the         *)
(* receipt, whatever became of the transaction.                            *)
(***************************************************************************)

\* The transaction the call waits for is included in a block and succeeds.
Mined ==
    /\ call.pc = "wait"
    /\ call.tx.hash \notin chain
    /\ chain' = chain \cup {call.tx.hash}
    /\ UNCHANGED <<now, rateLimits, lastCheck, rlAdmitted, wallet, contract,
                   approved, call, flows, build, probe, script, parked,
                   controller, api>>

\* await tx.wait(): a receipt is returned for a mined transaction only.
ChainWaitReturns ==
    /\ WaitReturns
    /\ Len(call'.net.confirmed) > Len(call.net.confirmed) =>
           call.tx.hash \in chain

ChainNext ==
    \/ WalletEvent
    \/ RaceCalls
    \/ Mined
    \/ SwitchNetworkReturns
    \/ BalanceOfReturns
    \/ IsApprovedForAllReturns
    \/ SetApprovalForAllReturns
    \/ ApprovalWaitReturns
    \/ EstimateGasReturns
    \/ LimitOrdersReturns
    \/ ChainWaitReturns
    \/ DelayReturns

ChainSpec == Init /\ [][ChainNext]_vars

(***************************************************************************)
(* The validator on its own: validateInput is called with a number as a    *)
(* price or as a quantity.                                                 *)
(***************************************************************************)
ValidateInputCalled ==
    /\ \E type \in {"price", "quantity"}, value \in Numbers :
          probe' = [type |-> type, value |-> value,
                    result |-> ValidateInput(value, type)]
    /\ UNCHANGED <<now, rateLimits, lastCheck, rlAdmitted, wallet, contract,
                   approved, call, flows, build, script, parked, chain, controller, api>>

ValidateNext == ValidateInputCalled

ValidateSpec == Init /\ [][ValidateNext]_vars

(***************************************************************************)
(* Concurrent flows: several activations of createBatchOrders are under    *)
(* way at once.  A flow runs from its call to its first await in one       *)
(* piece, and that piece holds the whole of checkRateLimit; the pieces     *)
(* that follow neither read nor write #rateLimits and are taken together   *)
(* as the flow's return.  Flows interleave piece by piece, with the wallet *)
(* changing and the clock advancing in between.                            *)
(***************************************************************************)

\* Time passes.
FlowTick ==
    /\ now + FlowTickMs <= FlowMaxNow
    /\ now' = now + FlowTickMs
    /\ UNCHANGED <<rateLimits, lastCheck, rlAdmitted, harness, wallet,
                   contract, approved, call>>

\* Flow f calls createBatchOrders and runs to its first await (lines
\* 123-150), or to its return when it is rejected there.
FlowCalls(f) ==
    /\ flows[f] \in {"idle", "done"}
    /\ LET rateLimitCheck ==
                CheckRecord(rateLimits, BatchKey(WalletAddress(wallet)),
                            BatchMaxRequests, BatchWindowMs, now)
           goesOn == Admitted(rateLimitCheck) /\ wallet.isConnected
       IN  /\ lastCheck' = rateLimitCheck
           /\ rateLimits' = SetHistory(rateLimits, rateLimitCheck.key,
                                       rateLimitCheck.stored)
           /\ rlAdmitted' =
                 IF rateLimitCheck.allowed
                 THEN [rlAdmitted EXCEPT ![rateLimitCheck.key] = Append(@, now)]
                 ELSE rlAdmitted
           /\ flows' = [flows EXCEPT ![f] = IF goesOn THEN "awaiting"
                                            ELSE "done"]
           /\ contract' = IF goesOn /\ wallet.isOnCorrectNetwork
                          THEN InitializeContracts(wallet, contract)
                          ELSE contract
    /\ UNCHANGED <<now, build, wallet, approved, call>>
    /\ UNCHANGED <<probe, script, parked, chain, controller, api>>

\* The rest of flow f: its pending calls settle and it returns.
FlowReturns(f) ==
    /\ flows[f] = "awaiting"
    /\ flows' = [flows EXCEPT ![f] = "done"]
    /\ UNCHANGED <<now, rateLimits, lastCheck, rlAdmitted, build, wallet,
                   contract, approved, call, probe, script, parked, chain, controller, api>>

FlowNext ==
    \/ FlowTick
    \/ WalletEvent
    \/ \E f \in Flows : FlowCalls(f)
    \/ \E f \in Flows : FlowReturns(f)

FlowSpec == Init /\ [][FlowNext]_vars

(***************************************************************************)
(* The loop of #validateAndPrepareOrders on its own: a request list within *)
(* the cap is taken round by round, each round with the balance that       *)
(* #getUserBalance hands it (0 when the read failed).                      *)
(***************************************************************************)

\* The loop is entered with a request list.
BuildBegins ==
    /\ Len(build.balances) = Len(build.requests)
    /\ \E requests \in BuildLists :
          build' = [NoBuild EXCEPT !.requests = requests]
    /\ UNCHANGED <<now, rateLimits, lastCheck, rlAdmitted, flows, wallet,
                   contract, approved, call, probe, script, parked, chain, controller, api>>

\* One round (lines 188-224).
BuildRound ==
    /\ Len(build.balances) < Len(build.requests)
    /\ \E ok \in BOOLEAN, read \in BuildBalances :
          LET balance == GetUserBalance(ok, read)
              request == build.requests[Len(build.balances) + 1]
          IN  build' = [build EXCEPT
                          !.reads = Append(@, [ok |-> ok, read |-> read]),
                          !.balances = Append(@, balance),
                          !.validatedOrders =
                              PrepareItem(@, request, balance)]
    /\ UNCHANGED <<now, rateLimits, lastCheck, rlAdmitted, flows, wallet,
                   contract, approved, call, probe, script, parked, chain, controller, api>>

BuildNext == BuildBegins \/ BuildRound

BuildSpec == Init /\ [][BuildNext]_vars

(***************************************************************************)
(* The standalone script: batchCreateSellOrders is called with a list of   *)
(* orders and the chain answers or fails.                                  *)
(***************************************************************************)

ScriptBegins ==
    /\ script.pc \in {"idle", "returned"}
    /\ \E orders \in ScriptLists : script' = BatchCreateSellOrders(orders)
    /\ UNCHANGED <<now, rateLimits, lastCheck, rlAdmitted, wallet, contract,
                   approved, call, flows, build, probe, parked, chain, controller, api>>

\* await this.getTokenBalance(tokenId): the balance, or '0' when the read
\* failed; then the balance check.
ScriptBalanceOfReturns ==
    /\ script.pc = "balanceOf"
    /\ \E ok \in BOOLEAN, read \in ScriptBalances :
          LET balance == IF ok THEN read ELSE 0
              amount == script.orders[script.i].amount
          IN  script' =
                 IF balance < amount
                 THEN SellFailed(script,
                                 <<"Insufficient balance. Have: ",
                                   ToString(balance), ", Need: ",
                                   ToString(amount)>>)
                 ELSE [script EXCEPT !.pc = "isApprovedForAll"]
    /\ UNCHANGED <<now, rateLimits, lastCheck, rlAdmitted, wallet, contract,
                   approved, call, flows, build, probe, parked, chain, controller, api>>

\* await this.checkApproval(): what the chain says, or false when the
\* check failed.
ScriptIsApprovedForAllReturns ==
    /\ script.pc = "isApprovedForAll"
    /\ \E ok \in BOOLEAN :
          LET isApproved == ok /\ approved
          IN  script' = IF ~isApproved
                        THEN [script EXCEPT !.pc = "setApprovalForAll"]
                        ELSE TryFrom(script, 1)
    /\ UNCHANGED <<now, rateLimits, lastCheck, rlAdmitted, wallet, contract,
                   approved, call, flows, build, probe, parked, chain, controller, api>>

\* approveMarketplace: await setApprovalForAll(...)
ScriptSetApprovalForAllReturns ==
    /\ script.pc = "setApprovalForAll"
    /\ \E ok \in BOOLEAN :
          script' = IF ok THEN [script EXCEPT !.pc = "approvalWait"]
                    ELSE SellFailed(script, <<Rejection>>)
    /\ UNCHANGED <<now, rateLimits, lastCheck, rlAdmitted, wallet, contract,
                   approved, call, flows, build, probe, parked, chain, controller, api>>

\* approveMarketplace: await tx.wait()
ScriptApprovalWaitReturns ==
    /\ script.pc = "approvalWait"
    /\ \E ok \in BOOLEAN, mined \in BOOLEAN :
          IF ok
          THEN /\ approved' = TRUE
               /\ script' = TryFrom(script, 1)
          ELSE /\ approved' = (approved \/ mined)
               /\ script' = SellFailed(script, <<Rejection>>)
    /\ UNCHANGED <<now, rateLimits, lastCheck, rlAdmitted, wallet, contract,
                   call, flows, build, probe, parked, chain, controller, api>>

\* await this.marketplaceContract[functionName](tokenId, amountBN, priceInWei)
ScriptSendReturns ==
    /\ script.pc = "send"
    /\ \E ok \in BOOLEAN :
          script' = IF ok THEN [script EXCEPT !.pc = "wait"]
                    ELSE FunctionFailed(script, Rejection)
    /\ UNCHANGED <<now, rateLimits, lastCheck, rlAdmitted, wallet, contract,
                   approved, call, flows, build, probe, parked, chain, controller, api>>

\* await tx.wait() of the sell order
ScriptWaitReturns ==
    /\ script.pc = "wait"
    /\ \E ok \in BOOLEAN :
          script' = IF ok THEN SellConfirmed(script)
                    ELSE FunctionFailed(script, Rejection)
    /\ UNCHANGED <<now, rateLimits, lastCheck, rlAdmitted, wallet, contract,
                   approved, call, flows, build, probe, parked, chain, controller, api>>

\* The two seconds between two orders are over: the next order.
ScriptPauseReturns ==
    /\ script.pc = "pause"
    /\ script' = CreateSellOrder(script, script.i + 1)
    /\ UNCHANGED <<now, rateLimits, lastCheck, rlAdmitted, wallet, contract,
                   approved, call, flows, build, probe, parked, chain, controller, api>>

ScriptNext ==
    \/ ScriptBegins
    \/ ScriptBalanceOfReturns
    \/ ScriptIsApprovedForAllReturns
    \/ ScriptSetApprovalForAllReturns
    \/ ScriptApprovalWaitReturns
    \/ ScriptSendReturns
    \/ ScriptWaitReturns
    \/ ScriptPauseReturns

ScriptSpec == Init /\ [][ScriptNext]_vars

(***************************************************************************)
(* The controller: its public operations are called while others are under *)
(* way, the awaited calls settle in any order, and the wallet disconnects. *)
(***************************************************************************)

\* Operation t is at the await pc of method op.
At(t, op, pc) ==
    /\ controller.tasks[t] # <<>>
    /\ Top(controller, t).op = op
    /\ Top(controller, t).pc = pc

Free(t) == controller.tasks[t] = <<>>

InitializeCalled ==
    /\ \E t \in Tasks :
          /\ Free(t)
          /\ controller' = Initialize(controller, t, wallet.isConnected)
    /\ UNCHANGED <<now, rateLimits, lastCheck, rlAdmitted, wallet, contract,
                   approved, call, flows, build, probe, script, parked,
                   chain, api>>

ConnectWalletCalled ==
    /\ \E t \in Tasks :
          /\ Free(t)
          /\ controller' = ConnectWallet(controller, t)
    /\ UNCHANGED <<now, rateLimits, lastCheck, rlAdmitted, wallet, contract,
                   approved, call, flows, build, probe, script, parked,
                   chain, api>>

LoadItemsCalled ==
    /\ \E t \in Tasks :
          /\ Free(t)
          /\ controller' = LoadItems(controller, t)
    /\ UNCHANGED <<now, rateLimits, lastCheck, rlAdmitted, wallet, contract,
                   approved, call, flows, build, probe, script, parked,
                   chain, api>>

LoadPlayerItemsCalled ==
    /\ \E t \in Tasks :
          /\ Free(t)
          /\ controller' = LoadPlayerItems(controller, t, wallet.isConnected)
    /\ UNCHANGED <<now, rateLimits, lastCheck, rlAdmitted, wallet, contract,
                   approved, call, flows, build, probe, script, parked,
                   chain, api>>

CreateSellOrdersCalled ==
    /\ \E t \in Tasks, orderRequests \in SellRequestLists :
          /\ Free(t)
          /\ controller' = CreateSellOrders(controller, t, orderRequests,
                                            wallet.isConnected)
    /\ UNCHANGED <<now, rateLimits, lastCheck, rlAdmitted, wallet, contract,
                   approved, call, flows, build, probe, script, parked,
                   chain, api>>

\* await apiService.fetchEstforItems()
FetchEstforItemsReturns ==
    /\ \E t \in Tasks, ok \in BOOLEAN :
          /\ At(t, "loadItems", "fetchEstforItems")
          /\ controller' = ItemsFetched(controller, t, ok)
    /\ UNCHANGED <<now, rateLimits, lastCheck, rlAdmitted, wallet, contract,
                   approved, call, flows, build, probe, script, parked,
                   chain, api>>

\* await this.#getTokenBalance(item.id)
GetTokenBalanceReturns ==
    /\ \E t \in Tasks :
          /\ At(t, "loadPlayerItems", "getTokenBalance")
          /\ controller' = BalanceRead(controller, t)
    /\ UNCHANGED <<now, rateLimits, lastCheck, rlAdmitted, wallet, contract,
                   approved, call, flows, build, probe, script, parked,
                   chain, api>>

\* await walletService.connect().  When it succeeds the 'connected' listener
\* has started #loadInitialData on its own; when it fails the 'error'
\* listener has set the error and connectWallet's catch sets it again.
ConnectReturns ==
    /\ \E t \in Tasks :
          /\ At(t, "connectWallet", "connect")
          /\ \/ /\ wallet' = [isConnected |-> TRUE,
                              isOnCorrectNetwork |-> TRUE]
                /\ \E u \in Tasks :
                      /\ Free(u)
                      /\ controller' =
                            LoadInitialData(
                                SetTop(controller, t,
                                       [Top(controller, t)
                                           EXCEPT !.pc = "connected"]), u)
             \/ /\ wallet' = Disconnected
                /\ controller' =
                      Finish(UpdateState(
                                 [UpdateState(controller,
                                              [error |-> <<Rejection>>])
                                     EXCEPT !.loaded = FALSE],
                                 [isLoading |-> FALSE,
                                  error |-> <<Rejection>>]),
                             t, "rejected")
    /\ UNCHANGED <<now, rateLimits, lastCheck, rlAdmitted, contract,
                   approved, call, flows, build, probe, script, parked,
                   chain, api>>

\* connectWallet goes on after connect: await this.#loadInitialData()
ConnectWalletResumes ==
    /\ \E t \in Tasks :
          /\ At(t, "connectWallet", "connected")
          /\ controller' =
                LoadInitialData(
                    SetTop(controller, t,
                           [Top(controller, t) EXCEPT !.pc = "loading"]), t)
    /\ UNCHANGED <<now, rateLimits, lastCheck, rlAdmitted, wallet, contract,
                   approved, call, flows, build, probe, script, parked,
                   chain, api>>

\* The await of a method whose callee has settled resumes.
AwaitResumes ==
    /\ \E t \in Tasks :
          /\ Len(controller.tasks[t]) >= 2
          /\ Top(controller, t).pc \in {"resolved", "rejected"}
          /\ controller' = Resumed(controller, t, wallet.isConnected)
    /\ UNCHANGED <<now, rateLimits, lastCheck, rlAdmitted, wallet, contract,
                   approved, call, flows, build, probe, script, parked,
                   chain, api>>

\* walletService.disconnect(): the 'disconnected' listener clears the
\* balances.
WalletDisconnected ==
    /\ wallet.isConnected
    /\ wallet' = Disconnected
    /\ controller' = [UpdateState(controller, [balances |-> EmptyMap])
                         EXCEPT !.loaded = FALSE]
    /\ UNCHANGED <<now, rateLimits, lastCheck, rlAdmitted, contract,
                   approved, call, flows, build, probe, script, parked,
                   chain, api>>

ControllerNext ==
    \/ InitializeCalled
    \/ ConnectWalletCalled
    \/ LoadItemsCalled
    \/ LoadPlayerItemsCalled
    \/ CreateSellOrdersCalled
    \/ FetchEstforItemsReturns
    \/ GetTokenBalanceReturns
    \/ ConnectReturns
    \/ ConnectWalletResumes
    \/ AwaitResumes
    \/ WalletDisconnected

ControllerSpec == Init /\ [][ControllerNext]_vars

(***************************************************************************)
(* The item fetches: fetchEstforItems is called at any time, the request   *)
(* to the API settles, its owner resumes, the cache is cleared and time    *)
(* passes.                                                                 *)
(***************************************************************************)

\* Time passes (not between the settling of a request and the resumption
\* of its owner, which is a matter of microtasks).
ApiTick ==
    /\ \A id \in DOMAIN api.promises : api.promises[id] = "inFlight"
    /\ now + ApiTickMs <= ApiMaxNow
    /\ now' = now + ApiTickMs
    /\ UNCHANGED <<rateLimits, lastCheck, rlAdmitted, wallet, contract,
                   approved, call, flows, build, probe, script, parked,
                   chain, controller, api>>

\* fetchEstforItems() up to its return or its await; #fetchItemsFromApi()
\* up to its throw or its await fetch(url, ...).
FetchEstforItemsCalled ==
    /\ LET cached == GetFromCache(api.cache, CacheKey, now)
       IN  IF cached.hit
           THEN /\ api' = [api EXCEPT !.last = [did |-> "cache",
                                                promise |-> 0]]
                /\ UNCHANGED <<rateLimits, lastCheck>>
           ELSE IF HasPending(api.pending, CacheKey)
           THEN /\ api' = [api EXCEPT !.cache = cached.cache,
                                      !.last = [did |-> "shared",
                                                promise |->
                                                    api.pending[CacheKey]]]
                /\ UNCHANGED <<rateLimits, lastCheck>>
           ELSE LET rateLimitCheck ==
                        CheckRecord(rateLimits, ItemsKey, ItemsMaxRequests,
                                    ItemsWindowMs, now)
                    id == api.issued + 1
                IN  /\ api.issued < ApiMaxPromises
                    /\ lastCheck' = rateLimitCheck
                    /\ rateLimits' = SetHistory(rateLimits, ItemsKey,
                                                rateLimitCheck.stored)
                    /\ api' = [api EXCEPT
                                  !.cache = cached.cache,
                                  !.issued = id,
                                  !.pending = MapSet(@, CacheKey, id),
                                  !.promises =
                                      MapSet(@, id,
                                             IF rateLimitCheck.allowed
                                             THEN "inFlight"
                                             ELSE "rejected"),
                                  !.last = [did |-> "request",
                                            promise |-> id]]
    /\ UNCHANGED <<now, rlAdmitted, wallet, contract, approved, call, flows,
                   build, probe, script, parked, chain, controller>>

\* The request settles: the response was processed, or fetch, the status
\* check, response.json() or #processItemsData threw.
ItemsRequestSettles ==
    /\ \E id \in DOMAIN api.promises, ok \in BOOLEAN :
          /\ api.promises[id] = "inFlight"
          /\ api' = [api EXCEPT !.promises[id] =
                                   IF ok THEN "fulfilled" ELSE "rejected"]
    /\ UNCHANGED <<now, rateLimits, lastCheck, rlAdmitted, wallet, contract,
                   approved, call, flows, build, probe, script, parked,
                   chain, controller>>

\* await requestPromise resumes in the call that made the request.
ItemsOwnerResumes ==
    /\ \E id \in DOMAIN api.promises :
          /\ api.promises[id] # "inFlight"
          /\ api' = OwnerResumed(api, id, now)
    /\ UNCHANGED <<now, rateLimits, lastCheck, rlAdmitted, wallet, contract,
                   approved, call, flows, build, probe, script, parked,
                   chain, controller>>

\* clearCache()
ClearCache ==
    /\ api.cache # EmptyMap
    /\ api' = [api EXCEPT !.cache = EmptyMap]
    /\ UNCHANGED <<now, rateLimits, lastCheck, rlAdmitted, wallet, contract,
                   approved, call, flows, build, probe, script, parked,
                   chain, controller>>

ApiNext ==
    \/ ApiTick
    \/ FetchEstforItemsCalled
    \/ ItemsRequestSettles
    \/ ItemsOwnerResumes
    \/ ClearCache

ApiSpec == Init /\ [][ApiNext]_vars


(***************************************************************************)
(* Properties of the rate limiter (checked under RLSpec).                  *)
(***************************************************************************)

\* The smallest element of a non-empty set of numbers.
MinOf(S) == CHOOSE x \in S : \A y \in S : x <= y

\* The elements of a sequence.
Range(s) == {s[i] : i \in 1..Len(s)}

\* The admissions on the key of the last check that preceded that check.
PriorAdmitted ==
    LET log == rlAdmitted[lastCheck.key]
    IN  IF lastCheck.allowed THEN SubSeq(log, 1, Len(log) - 1) ELSE log

\* How many of the earlier admitted calls fall in the window of windowMs
\* milliseconds that ends with the last check.
PriorInWindow ==
    Cardinality({i \in 1..Len(PriorAdmitted) :
                    PriorAdmitted[i] > lastCheck.at - lastCheck.windowMs})

\* C8: with maxRequests = N and window W on one key, at most N calls are
\* admitted in any rolling interval of W milliseconds: N + 1 admitted calls
\* never lie less than W ms apart, and a call made while N admitted calls
\* are less than W ms old is rejected.
C8_AtMostNPerWindow ==
    /\ \A key \in Keys :
         \A i \in 1..Len(rlAdmitted[key]) :
            i + RLMaxRequests <= Len(rlAdmitted[key]) =>
               rlAdmitted[key][i + RLMaxRequests] - rlAdmitted[key][i]
                  >= RLWindowMs
    /\ (lastCheck.key \in Keys /\ PriorInWindow >= lastCheck.maxRequests)
          => ~lastCheck.allowed

\* A call is rejected although the clock moved between the N admitted calls
\* it is counted against.
C8_Witness ==
    /\ lastCheck.key \in Keys
    /\ ~lastCheck.allowed
    /\ PriorInWindow = RLMaxRequests
    /\ Cardinality(Range(lastCheck.stored)) > 1
    /\ lastCheck.at > lastCheck.stored[Len(lastCheck.stored)]

\* The key was at its limit when the last check was made, and its earliest
\* counted call was W ms old or older.
EarliestLeft ==
    /\ lastCheck.key \in Keys
    /\ Len(lastCheck.before) = lastCheck.maxRequests
    /\ lastCheck.before[1] + lastCheck.windowMs <= lastCheck.at

\* ... and the other N - 1 counted calls were still inside the window.
OneSlotFreed ==
    /\ EarliestLeft
    /\ \A i \in 2..Len(lastCheck.before) :
          lastCheck.before[i] > lastCheck.at - lastCheck.windowMs

\* C9: once W ms have elapsed since the earliest counted call of a key at
\* its limit, the check is admitted; and if the other N - 1 counted calls
\* are still inside the window exactly one slot was free: the key is full
\* again and a further check at that moment is rejected.
C9_OneSlotRestored ==
    /\ EarliestLeft => lastCheck.allowed
    /\ OneSlotFreed =>
        /\ Len(lastCheck.stored) = lastCheck.maxRequests
        /\ ~CheckRateLimit([k \in {lastCheck.key} |-> lastCheck.stored],
                           lastCheck.key, lastCheck.maxRequests,
                           lastCheck.windowMs,
                           lastCheck.at).returned.allowed

\* The slot is freed at the very millisecond the earliest call is W ms old.
C9_Witness ==
    /\ OneSlotFreed
    /\ lastCheck.before[1] + lastCheck.windowMs = lastCheck.at
    /\ lastCheck.maxRequests >= 2

\* C10: a rejection's reset time is the time from now until the oldest
\* retained timestamp leaves the window, in whole seconds rounded up: the
\* least r with r * 1000 >= oldest + windowMs - now.
C10_ResetTimeIsCeil ==
    (lastCheck.key \in Keys /\ ~lastCheck.allowed) =>
        LET oldest == MinOf(Range(lastCheck.stored))
            left == oldest + lastCheck.windowMs - lastCheck.at
        IN  /\ HasField(lastCheck.returned, "resetTime")
            /\ lastCheck.returned.resetTime * 1000 >= left
            /\ (lastCheck.returned.resetTime - 1) * 1000 < left

\* A rejection whose remaining time is not a whole number of seconds.
C10_Witness ==
    /\ lastCheck.key \in Keys
    /\ ~lastCheck.allowed
    /\ (lastCheck.stored[1] + lastCheck.windowMs - lastCheck.at) % 1000 # 0
    /\ lastCheck.returned.resetTime = 2


(***************************************************************************)
(* Properties of createBatchOrders (checked under Spec and FairSpec).      *)
(***************************************************************************)

\* The call has returned / is under way.
Done == call.pc = "done"
InProgress == call.pc \notin {"idle", "done", "threw"}

\* The call returned the failure of #executeBatchTransaction's final throw.
Exhausted ==
    /\ Done
    /\ ~call.result.success
    /\ call.result.error[1] = "All transaction attempts failed: "

\* The sides of 2 x maxRetries attempts: the sell side, then the buy side.
AllAttempts ==
    [i \in 1..(2 * maxRetries) |-> IF i <= maxRetries THEN "sell" ELSE "buy"]

\* C1: when every attempt fails, exactly 2 x maxRetries attempts are made,
\* maxRetries on the sell side and then maxRetries on the buy side, and the
\* failed result is returned only then: a call that began to submit and
\* returned a failure made all of them.
C1_ExactlyTwiceMaxRetries ==
    /\ Exhausted => call.net.attempts = AllAttempts
    /\ (Done /\ ~call.result.success /\ Len(call.net.attempts) > 0) =>
           /\ Exhausted
           /\ call.net.estimateGas = 2 * maxRetries

\* Every attempt failed and the call returned.
C1_Witness == Exhausted /\ Len(call.net.attempts) = 2 * maxRetries

\* C2: a buy-side attempt is made only after maxRetries sell-side attempts
\* (which all failed), no sell-side attempt follows a buy-side attempt, and
\* the orders handed to the marketplace are those of the attempt's side.
C2_BuyOnlyAfterSell ==
    LET attempts == call.net.attempts
    IN  /\ \A i \in 1..Len(attempts) :
              attempts[i] = "buy" <=> i > maxRetries
        /\ \A i \in 1..Len(attempts) : \A j \in 1..Len(attempts) :
              (i < j /\ attempts[i] = "buy") => attempts[j] = "buy"
        /\ call.pc \in {"estimateGas", "limitOrders", "wait"} =>
              /\ Len(call.orders) = Len(call.validatedOrders)
              /\ \A i \in 1..Len(call.orders) :
                    call.orders[i].side =
                        IF attempts[Len(attempts)] = "buy" THEN 1 ELSE 0

\* A buy-side attempt is waiting for its confirmation.
C2_Witness ==
    /\ call.pc = "wait"
    /\ Len(call.net.attempts) > maxRetries
    /\ call.orders[1].side = 1

\* C3: once an attempt is confirmed the submitter has stopped: the call has
\* returned, the confirmed attempt is the last one made, and the result is
\* a success with the hash, block number and gas used of that transaction.
C3_StopsAtConfirmation ==
    Len(call.net.confirmed) > 0 =>
        LET receipt == call.net.confirmed[1]
        IN  /\ Len(call.net.confirmed) = 1
            /\ Done
            /\ receipt.attempt = Len(call.net.attempts)
            /\ call.net.estimateGas = receipt.attempt
            /\ call.result.success
            /\ HasField(call.result, "txHash")
            /\ call.result.txHash = receipt.hash
            /\ call.result.blockNumber = receipt.blockNumber
            /\ call.result.gasUsed = ToString(receipt.gasUsed)

\* The second sell attempt was confirmed.
C3_Witness ==
    /\ Len(call.net.confirmed) = 1
    /\ call.net.attempts = <<"sell", "sell">>
    /\ call.result.txHash = <<"0xtx", 2>>

\* C4 as claimed: a success in a buy-side attempt carries a note, a success
\* in a sell-side attempt carries none.
C4_NoteOnBuyFallback ==
    (Done /\ call.result.success) =>
        LET attempts == call.net.attempts
        IN  IF attempts[Len(attempts)] = "buy"
            THEN HasField(call.result, "note")
            ELSE ~HasField(call.result, "note")

\* The failure messages of createBatchOrders.
FailureMessages ==
    {"Rate limit exceeded. Try again in ", "Wallet not connected", Rejection,
     "Too many orders. Maximum ", "No valid orders to create",
     "Failed to approve marketplace: ", "All transaction attempts failed: "}

\* C5: createBatchOrders never throws: every failure in the pipeline is
\* returned as a result with success = false and an error message.
C5_NeverThrows ==
    /\ call.pc # "threw"
    /\ Done =>
          /\ call.results = 1
          /\ ~call.result.success =>
                /\ HasField(call.result, "error")
                /\ call.result.error[1] \in FailureMessages

\* A failed approval was returned as a failed result.
C5_Witness ==
    /\ Done
    /\ ~call.result.success
    /\ call.result.error[1] = "Failed to approve marketplace: "
    /\ call.net.setApprovalForAll = 1

\* C6: a result is a success with a transaction hash and no error, or a
\* failure with an error and no transaction hash.
C6_HashXorError ==
    Done =>
        \/ /\ call.result.success
           /\ HasField(call.result, "txHash")
           /\ Len(call.result.txHash) > 0
           /\ ~HasField(call.result, "error")
        \/ /\ ~call.result.success
           /\ HasField(call.result, "error")
           /\ Len(call.result.error) > 0
           /\ ~HasField(call.result, "txHash")

\* A success of the buy-side fallback.
C6_Witness ==
    /\ Done
    /\ call.result.success
    /\ Len(call.net.attempts) > maxRetries

\* C7: a call of createBatchOrders whose collaborators all answer returns,
\* with exactly one result.
C7_Terminates ==
    /\ [](Done => call.results = 1)
    /\ [](InProgress => call.results = 0)
    /\ (InProgress ~> Done)

\* A call that went through every stage and every attempt has returned.
C7_Witness ==
    /\ Done
    /\ call.results = 1
    /\ call.net.setApprovalForAll = 1
    /\ call.net.delay = 2 * (maxRetries - 1)


(***************************************************************************)
(* Properties of the stages of createBatchOrders (checked under Spec).     *)
(***************************************************************************)

\* The stage a call is in: 1 network switch, 2 building the batch, 3
\* approval, 4 gas estimation and submission; 0 when no call is under way.
Stage ==
    CASE call.pc = "switchNetwork" -> 1
      [] call.pc = "balanceOf" -> 2
      [] call.pc \in {"isApprovedForAll", "setApprovalForAll",
                      "approvalWait"} -> 3
      [] call.pc \in {"estimateGas", "limitOrders", "wait", "delay"} -> 4
      [] OTHER -> 0

\* The call has read no balance / has done nothing for the approval / has
\* estimated and submitted nothing.
NoBalanceRead == call.net.balanceOf = 0 /\ call.net.overLimits = 0
NoApprovalWork ==
    /\ call.net.isApprovedForAll = 0
    /\ call.net.approval = <<>>
    /\ call.net.setApprovalForAll = 0
NoSubmission ==
    /\ call.net.estimateGas = 0
    /\ call.net.attempts = <<>>
    /\ call.net.delay = 0
    /\ call.net.confirmed = <<>>

\* The call returned the failure with this first piece of message.
FailedWith(message) ==
    /\ Done
    /\ ~call.result.success
    /\ call.result.error[1] = message

\* C12: when the rate limiter rejects a call of createBatchOrders the call
\* returns the rate limit failure and has attempted nothing else: no
\* network switch, no contract initialisation, no balance read, no approval
\* check or transaction, no gas estimation, no submission.
C12_RejectedAttemptsNothing ==
    /\ (call.pc # "idle" /\ ~lastCheck.allowed) =>
          /\ FailedWith("Rate limit exceeded. Try again in ")
          /\ call.net = [NoCalls EXCEPT !.requested = call.net.requested]
    /\ FailedWith("Rate limit exceeded. Try again in ") => ~lastCheck.allowed

\* A call is rejected that would otherwise have switched the network and
\* gone on with two requests.
C12_Witness ==
    /\ FailedWith("Rate limit exceeded. Try again in ")
    /\ ~lastCheck.allowed
    /\ wallet.isConnected
    /\ ~wallet.isOnCorrectNetwork
    /\ call.net.requested = 2

\* C13: the stages of a call run strictly one after the other: a call under
\* way was admitted; while it switches the network or builds the batch it
\* has done nothing for the approval and submitted nothing; when it checks
\* the approval every balance has been read and nothing is estimated or
\* submitted; when it estimates and submits the approval is settled.
C13_StagesInSequence ==
    /\ Stage >= 1 => lastCheck.allowed
    /\ Stage = 1 =>
          NoBalanceRead /\ call.net.initializeContracts = 0
    /\ Stage \in {1, 2} => NoApprovalWork /\ NoSubmission
    /\ Stage = 2 => call.net.balanceOf <= call.idx
    /\ Stage >= 3 =>
          /\ call.net.balanceOf = call.net.requested
          /\ call.idx = 0
          /\ call.net.isApprovedForAll = 1
    /\ Stage = 3 => NoSubmission
    /\ Stage = 4 =>
          /\ Len(call.net.approval) > 0
          /\ call.net.approval[Len(call.net.approval)]
                \in {"isApprovedForAll: true", "confirmed"}

\* A call that went through every stage is submitting.
C13_Witness ==
    /\ call.pc = "limitOrders"
    /\ call.net.switchNetwork = 1
    /\ call.net.balanceOf = 2
    /\ call.net.setApprovalForAll = 1

\* C14: a call with more than maxBatchSize requests fails with one error
\* before any balance read, approval or submission, and the list is never
\* cut to the cap; a list of exactly maxBatchSize requests is not refused
\* and its requests are taken one by one.
C14_CapFailsWhole ==
    /\ (call.pc # "idle" /\ call.net.requested > maxBatchSize) =>
          /\ call.pc \in {"switchNetwork", "done"}
          /\ NoBalanceRead /\ NoApprovalWork /\ NoSubmission
          /\ Done =>
                /\ ~call.result.success
                /\ call.result.error[1] \in
                      {"Rate limit exceeded. Try again in ",
                       "Wallet not connected", Rejection,
                       "Too many orders. Maximum "}
    /\ FailedWith("Too many orders. Maximum ") =>
          /\ call.net.requested > maxBatchSize
          /\ call.result.error[2] = ToString(maxBatchSize)
    /\ (Stage >= 3 /\ call.net.requested = maxBatchSize) =>
          call.net.balanceOf = maxBatchSize

\* A call over the cap fails after it switched the network.
C14_Witness ==
    /\ FailedWith("Too many orders. Maximum ")
    /\ call.net.requested = maxBatchSize + 1
    /\ call.net.switchNetwork = 1
    /\ contract

\* The price and the quantity of a request fit the contract's integer
\* widths: 0 < quantity <= 2^24 - 1 and 0 < price x 10^18 <= 2^72 - 1, the
\* price being in thousandths of an ETH and 2^72 - 1 being
\* 4722366 x 10^15 + 482869645213695.
Fits(request) ==
    /\ 0 < request.amount /\ request.amount <= 2^24 - 1
    /\ 0 < request.priceInEth /\ request.priceInEth <= 4722366

\* C16: every order of the batch being built or handed to gas estimation
\* and submission has 0 < quantity <= 2^24 - 1 and 0 < price <= 2^72 - 1
\* (in wei), and a request outside these bounds is left out on its own: no
\* more orders are kept than requests within the bounds were taken, and
\* requests that #validateContractLimits refused do not stop the call.
C16_WireWidths ==
    /\ \A orders \in {call.validatedOrders, call.orders} :
          \A i \in 1..Len(orders) :
              /\ 0 < orders[i].quantity /\ orders[i].quantity <= 2^24 - 1
              /\ 0 < orders[i].price.e15 /\ orders[i].price.e15 <= 4722366
    /\ call.pc = "balanceOf" =>
          /\ Len(call.validatedOrders) <=
                Cardinality({j \in 1..(call.idx - 1) :
                                Fits(call.orderRequests[j])})
          /\ call.net.overLimits <=
                Cardinality({j \in 1..(call.idx - 1) :
                                ~Fits(call.orderRequests[j])})
    /\ Stage >= 3 =>
          Len(call.validatedOrders) + call.net.overLimits
              <= call.net.requested

\* A request at 1,000,000 ETH had the balance it needed and was refused by
\* #validateContractLimits; the other request of the call is submitted.
C16_Witness ==
    /\ call.pc = "wait"
    /\ call.net.requested = 2
    /\ call.net.overLimits = 1
    /\ Len(call.orders) = 1

\* C17: when no request survives the building of the batch the call returns
\* the failure 'No valid orders to create' and has not checked the
\* approval, sent an approval, estimated gas or submitted; a call that goes
\* beyond the building has at least one order.
C17_NothingToSubmit ==
    /\ FailedWith("No valid orders to create") =>
          NoApprovalWork /\ NoSubmission
    /\ Stage >= 3 => Len(call.validatedOrders) > 0
    /\ (Done /\ call.result.success) => call.result.ordersCreated > 0

\* Two requests were taken, their balances read, and neither survived.
C17_Witness ==
    /\ FailedWith("No valid orders to create")
    /\ call.net.requested = 2
    /\ call.net.balanceOf = 2

\* How often an event is in the record of #ensureApprovals.
Times(event) ==
    Cardinality({i \in 1..Len(call.net.approval) :
                    call.net.approval[i] = event})

\* C18: a call of #ensureApprovals calls setApprovalForAll if and only if
\* isApprovedForAll answered false in it; when it answered true no approval
\* transaction is sent; and a call sends at most one.
C18_ApprovesOnlyWhenNeeded ==
    /\ Times("setApprovalForAll") = Times("isApprovedForAll: false")
    /\ Times("setApprovalForAll") <= 1
    /\ call.net.setApprovalForAll <= Times("setApprovalForAll")
    /\ call.net.setApprovalForAll = Times("sent")
    /\ Times("isApprovedForAll: true") > 0 =>
          /\ call.net.approval = <<"isApprovedForAll: true">>
          /\ call.net.setApprovalForAll = 0
          /\ call.pc \notin {"setApprovalForAll", "approvalWait"}
    /\ call.pc \in {"setApprovalForAll", "approvalWait"} =>
          call.net.approval[1] = "isApprovedForAll: false"

\* A call found the marketplace approved (by an earlier call) and its
\* batch was confirmed without an approval transaction.
C18_Witness ==
    /\ Done
    /\ call.result.success
    /\ call.net.approval = <<"isApprovedForAll: true">>
    /\ call.net.setApprovalForAll = 0
    /\ approved

\* What may fail in #ensureApprovals.
ApprovalFailures ==
    {"isApprovedForAll failed", "setApprovalForAll failed", "wait failed"}

\* C19: when the approval check, the sending of the approval or its
\* confirmation fails, the call returns a failed result at once: nothing of
\* the approval is tried again and no gas is estimated and no batch
\* submitted; and the approval failure is returned only then.
C19_ApprovalFailureIsFinal ==
    /\ (\E i \in 1..Len(call.net.approval) :
            call.net.approval[i] \in ApprovalFailures) =>
          /\ FailedWith("Failed to approve marketplace: ")
          /\ HasField(call.result, "error")
          /\ call.net.approval[Len(call.net.approval)] \in ApprovalFailures
          /\ \A event \in ApprovalFailures \cup
                  {"isApprovedForAll: false", "setApprovalForAll", "sent"} :
                Times(event) <= 1
          /\ call.net.isApprovedForAll = 1
          /\ NoSubmission
    /\ FailedWith("Failed to approve marketplace: ") =>
          call.net.approval[Len(call.net.approval)] \in ApprovalFailures

\* The confirmation of a sent approval failed and the call returned.
C19_Witness ==
    /\ Done
    /\ call.net.approval = <<"isApprovedForAll: false", "setApprovalForAll",
                              "sent", "wait failed">>
    /\ call.net.estimateGas = 0

\* C20: while the approval transaction of a call is being sent or is not
\* yet confirmed nothing is estimated and nothing submitted; a call that
\* needed the approval estimates gas only after its confirmation.
C20_ApprovalConfirmedFirst ==
    /\ call.pc \in {"setApprovalForAll", "approvalWait"} => NoSubmission
    /\ (Times("setApprovalForAll") > 0 /\ ~NoSubmission) =>
          /\ call.net.approval = <<"isApprovedForAll: false",
                                    "setApprovalForAll", "sent", "confirmed">>
          /\ approved

\* The first gas estimation of a call that sent the approval.
C20_Witness ==
    /\ call.pc = "estimateGas"
    /\ call.net.estimateGas = 1
    /\ Times("confirmed") = 1
    /\ call.net.setApprovalForAll = 1

(***************************************************************************)
(* Properties of the loop of #validateAndPrepareOrders (checked under      *)
(* BuildSpec).                                                             *)
(***************************************************************************)

\* The subsequence of seq at the indices in K.
Pick(seq, K) ==
    LET upTo[i \in 0..Len(seq)] ==
            IF i = 0 THEN <<>>
            ELSE IF i \in K THEN Append(upTo[i - 1], seq[i])
                 ELSE upTo[i - 1]
    IN  upTo[Len(seq)]

\* The rounds made so far, and the requests among them whose quantity is
\* at most the balance the round went on with.
Rounds == 1..Len(build.balances)
Affordable == {i \in Rounds : build.requests[i].amount <= build.balances[i]}

\* C15: for requests that are otherwise in order, the batch built is
\* exactly the subsequence of the requests whose quantity is at most the
\* balance read for them: the others are left out one by one and the kept
\* ones stay in the order of the input.
C15_ExactSubsequence ==
    (\A i \in Rounds : Fits(build.requests[i])) =>
        LET kept == Pick(build.requests, Affordable)
        IN  /\ Len(build.validatedOrders) = Len(kept)
            /\ \A j \in 1..Len(kept) :
                  /\ build.validatedOrders[j].tokenId = kept[j].tokenId
                  /\ build.validatedOrders[j].quantity = kept[j].amount
                  /\ build.validatedOrders[j].price.e15 = kept[j].priceInEth

\* Of three requests in order the middle one lacked the balance; the other
\* two, of different tokens, were kept.
C15_Witness ==
    /\ Len(build.requests) = 3
    /\ Len(build.balances) = 3
    /\ \A i \in Rounds : Fits(build.requests[i])
    /\ Affordable = {1, 3}
    /\ build.balances[2] > 0
    /\ Len(build.validatedOrders) = 2
    /\ build.validatedOrders[1].tokenId # build.validatedOrders[2].tokenId

(***************************************************************************)
(* Properties of concurrent flows (checked under FlowSpec).                *)
(***************************************************************************)

\* C11: however the concurrent calls of createBatchOrders that check one
\* key interleave, the key is one counter: more than maxRequests admitted
\* calls never lie less than windowMs apart, and no admitted timestamp is
\* lost: the history kept for the key is the tail of the admitted calls
\* and holds every admitted call that is less than windowMs old.
C11_AtomicAdmission ==
    \A key \in Keys :
        LET log == rlAdmitted[key]
            stored == History(rateLimits, key)
            dropped == Len(log) - Len(stored)
        IN  /\ \A i \in 1..Len(log) :
                  i + BatchMaxRequests <= Len(log) =>
                      log[i + BatchMaxRequests] - log[i] >= BatchWindowMs
            /\ dropped >= 0
            /\ stored = SubSeq(log, dropped + 1, Len(log))
            /\ \A i \in 1..Len(log) :
                  log[i] > now - BatchWindowMs => i > dropped

\* A call is rejected on a key that is at its limit with admissions made
\* at different times, while another flow admitted on it is under way.
C11_Witness ==
    /\ \E f \in Flows : flows[f] = "awaiting"
    /\ ~lastCheck.allowed
    /\ lastCheck.key = BatchKey(Address)
    /\ Len(lastCheck.stored) = BatchMaxRequests
    /\ Cardinality(Range(lastCheck.stored)) > 1

(***************************************************************************)
(* Properties of a whole call and of its submission attempts (checked      *)
(* under Spec).                                                            *)
(***************************************************************************)

\* The call was given one request, found the marketplace not approved, and
\* the transaction of its first attempt was confirmed.
FirstSellAccepted ==
    /\ Done
    /\ call.net.requested = 1
    /\ Len(call.net.approval) > 0
    /\ call.net.approval[1] = "isApprovedForAll: false"
    /\ Len(call.net.confirmed) = 1
    /\ call.net.confirmed[1].attempt = 1

Submitting == call.pc \in {"limitOrders", "wait"}

\* C24: in every attempt the gas limit of the submission is the estimate
\* obtained in that same attempt with the configured percentage buffer
\* applied, gasLimit = floor(estimate x (100 + gasBufferPercent) / 100),
\* and is never below the estimate.
C24_GasLimitIsBufferedEstimate ==
    Submitting =>
        /\ call.gasEstimate \in GasEstimates(Len(call.net.attempts))
        /\ call.gasLimit * 100 <= call.gasEstimate * (100 + gasBufferPercent)
        /\ (call.gasLimit + 1) * 100
               > call.gasEstimate * (100 + gasBufferPercent)
        /\ call.gasLimit >= call.gasEstimate

\* The second attempt is submitted with the limit made of its own
\* estimate, which the buffer does not take to a whole number.
C24_Witness ==
    /\ call.pc = "wait"
    /\ Len(call.net.attempts) = 2
    /\ call.gasEstimate = 100008
    /\ call.gasLimit = 120009

\* The call is in a buy-side attempt (or waits after one).
BuyPhase == Stage = 4 /\ call.side = "buy"

\* C25: the batch of the buy-side fallback is the validated batch with
\* only the side changed: same length, same order, each order with its
\* tokenId, price and quantity and with side buy; the validated orders
\* themselves keep side sell; and a step of the submitter changes neither
\* the validated orders nor any state shared with other calls (the rate
\* limiter's map, the contracts, the approval on chain, the wallet).
C25_BuyBatchIsSameBatch ==
    /\ [](BuyPhase =>
            /\ Len(call.orders) = Len(call.validatedOrders)
            /\ \A i \in 1..Len(call.orders) :
                  /\ call.orders[i].side = 1
                  /\ call.orders[i].tokenId = call.validatedOrders[i].tokenId
                  /\ call.orders[i].price = call.validatedOrders[i].price
                  /\ call.orders[i].quantity
                        = call.validatedOrders[i].quantity
                  /\ call.validatedOrders[i].side = 0)
    /\ [][Stage = 4 =>
            /\ UNCHANGED <<rateLimits, lastCheck, contract, approved,
                           wallet, now>>
            /\ Stage' = 4 => call.validatedOrders' = call.validatedOrders]_vars

\* A buy-side attempt submits a batch of two orders for different tokens.
C25_Witness ==
    /\ BuyPhase
    /\ call.pc = "wait"
    /\ Len(call.orders) = 2
    /\ call.orders[1].tokenId # call.orders[2].tokenId
    /\ call.orders[1].side = 1

\* The delays a call has made when it is in its n-th attempt: one before
\* every attempt but the first of each side.
DelaysBefore(n) == (n - 1) - (IF n > maxRetries THEN 1 ELSE 0)

\* C28: after a failed attempt the submitter waits before the next attempt
\* of the same side and only then: it does not wait after the last attempt
\* of a side, neither between the last sell attempt and the first buy
\* attempt nor before the final failure; a call whose attempts all fail
\* has waited exactly 2 x (maxRetries - 1) times.
C28_DelayOnlyBetweenAttempts ==
    LET n == Len(call.net.attempts)
    IN  /\ call.pc \in {"estimateGas", "limitOrders", "wait"} =>
              call.net.delay = DelaysBefore(n)
        /\ call.pc = "delay" =>
              /\ call.attempt < maxRetries - 1
              /\ n % maxRetries # 0
              /\ call.net.delay = DelaysBefore(n) + 1
        /\ Exhausted => call.net.delay = 2 * (maxRetries - 1)
        /\ Len(call.net.confirmed) > 0 => call.net.delay = DelaysBefore(n)

\* The first buy attempt has begun right after the last sell attempt
\* failed: the call waited between the sell attempts only.
C28_Witness ==
    /\ call.pc = "estimateGas"
    /\ Len(call.net.attempts) = maxRetries + 1
    /\ call.side = "buy"
    /\ call.net.delay = maxRetries - 1

\* C29: in each attempt a transaction is submitted only after the gas
\* estimation of that same attempt succeeded; an estimation that fails
\* uses up one attempt of the retry budget (every attempt begins with one
\* estimation and there are at most 2 x maxRetries) and nothing is
\* submitted in that attempt.
C29_SubmitsOnlyAfterEstimate ==
    /\ Submitting => call.gasEstimate > 0 /\ call.gasLimit > 0
    /\ call.pc = "estimateGas" =>
          call.gasEstimate = 0 /\ call.gasLimit = 0 /\ call.tx = NoTx
    /\ call.pc = "limitOrders" => call.tx = NoTx
    /\ call.pc = "wait" => call.tx = Tx(Len(call.net.attempts))
    /\ (call.pc = "delay" /\ call.gasEstimate = 0) => call.tx = NoTx
    /\ call.net.estimateGas = Len(call.net.attempts)
    /\ Len(call.net.attempts) <= 2 * maxRetries
    /\ \A i \in 1..Len(call.net.confirmed) :
          call.net.confirmed[i].gasUsed > 0

\* The estimation of the last sell attempt but one failed: the call waits
\* for its next attempt and has submitted nothing in this one.
C29_Witness ==
    /\ call.pc = "delay"
    /\ call.attempt = maxRetries - 2
    /\ call.gasEstimate = 0
    /\ call.tx = NoTx
    /\ call.lastError = Rejection

(***************************************************************************)
(* Properties of the balance reads of the loop (checked under BuildSpec).  *)
(***************************************************************************)

\* The rounds whose balance read failed, and the rounds whose request is
\* within the contract's bounds and had its balance read and sufficient.
FailedReads == {i \in Rounds : ~build.reads[i].ok}
ReadAndAffordable ==
    {i \in Rounds : /\ build.reads[i].ok
                    /\ Fits(build.requests[i])
                    /\ build.requests[i].amount <= build.reads[i].read}

\* C30: a balance read that fails does not end the loop: the round goes on
\* with a balance of zero, so the request of that round is left out, and
\* the other requests are taken as if nothing had happened: the batch is
\* exactly the requests whose balance was read and sufficient, in order.
C30_FailedReadDropsOne ==
    LET kept == Pick(build.requests, ReadAndAffordable)
    IN  /\ \A i \in FailedReads : build.balances[i] = 0
        /\ Len(build.validatedOrders) = Len(kept)
        /\ \A j \in 1..Len(kept) :
              /\ build.validatedOrders[j].tokenId = kept[j].tokenId
              /\ build.validatedOrders[j].quantity = kept[j].amount

\* The balance read of the first of three requests failed although the
\* balance would have sufficed; the two that follow were kept.
C30_Witness ==
    /\ Len(build.requests) = 3
    /\ Len(build.reads) = 3
    /\ FailedReads = {1}
    /\ build.reads[1].read >= build.requests[1].amount
    /\ Fits(build.requests[1])
    /\ ReadAndAffordable = {2, 3}
    /\ Len(build.validatedOrders) = 2

(***************************************************************************)
(* Properties of the validator (checked under ValidateSpec).               *)
(***************************************************************************)

\* x is an integer with 1 <= x <= 16777215.
IsQuantityInRange(x) ==
    /\ x.kind = "finite" /\ x.sign = 1 /\ x.frac = 0
    /\ 1 <= x.whole /\ x.whole <= 16777215

\* x is positive with 0.000001 <= x <= 1000000.
IsPriceInRange(x) ==
    /\ x.kind = "finite" /\ x.sign = 1
    /\ x.whole >= 1 \/ x.frac >= 10
    /\ x.whole < 1000000 \/ (x.whole = 1000000 /\ x.frac = 0)

\* C22: for every number q the quantity validation returns isValid = true
\* if and only if q is an integer with 1 <= q <= 16777215, and then the
\* sanitized value is q.
C22_QuantityValidIffWholeInRange ==
    probe.type = "quantity" =>
        /\ probe.result.isValid <=> IsQuantityInRange(probe.value)
        /\ probe.result.isValid => probe.result.sanitizedValue = probe.value

\* The largest quantity was validated and accepted.
C22_Witness ==
    /\ probe.type = "quantity"
    /\ probe.value = Finite(1, 16777215, 0)
    /\ probe.result.isValid
    /\ probe.result.sanitizedValue = probe.value

\* C23: for every number p the price validation returns isValid = true if
\* and only if p > 0 and 0.000001 <= p <= 1000000, both bounds included.
C23_PriceValidIffInRange ==
    probe.type = "price" =>
        (probe.result.isValid <=> IsPriceInRange(probe.value))

\* The least price was validated and accepted.
C23_Witness ==
    /\ probe.type = "price"
    /\ probe.value = Finite(1, 0, 10)
    /\ probe.result.isValid

(***************************************************************************)
(* Properties of the standalone script (checked under ScriptSpec).         *)
(***************************************************************************)

\* C27: batchCreateSellOrders takes the orders one at a time in the order
\* of the input; an order that fails does not keep the following orders
\* from being attempted; and the list returned has exactly one result per
\* order, in the order of the input, each marked success or failure.
C27_OneResultPerOrder ==
    LET begun == Len(script.began)
        pushed == Len(script.results)
    IN  /\ \A j \in 1..begun : script.began[j] = j
        /\ begun <= Len(script.orders)
        /\ script.pc \in {"balanceOf", "isApprovedForAll",
                          "setApprovalForAll", "approvalWait", "send",
                          "wait"} =>
              script.i = begun /\ pushed = begun - 1
        /\ script.pc = "pause" => script.i = begun /\ pushed = begun
        /\ script.pc = "returned" =>
              begun = Len(script.orders) /\ pushed = Len(script.orders)
        /\ \A j \in 1..pushed :
              /\ script.results[j].tokenId = script.orders[j].tokenId
              /\ script.results[j].amount = script.orders[j].amount
              /\ script.results[j].priceInEth = script.orders[j].priceInEth
              /\ script.results[j].success \in BOOLEAN
              /\ script.results[j].success <=>
                    HasField(script.results[j], "txHash")
              /\ ~script.results[j].success <=>
                    HasField(script.results[j], "error")
        /\ script.successCount + script.errorCount = pushed

\* Of three orders the first failed for lack of balance, the second after
\* every function of the contract had failed, and the third was placed.
C27_Witness ==
    /\ script.pc = "returned"
    /\ Len(script.orders) = 3
    /\ ~script.results[1].success
    /\ script.results[1].error[1] = "Insufficient balance. Have: "
    /\ ~script.results[2].success
    /\ script.results[2].error[1]
          = "All sell order functions failed. Last error: "
    /\ script.results[3].success
    /\ script.successCount = 1
    /\ script.errorCount = 2

(***************************************************************************)
(* Properties of two concurrent calls (checked under RaceSpec).            *)
(***************************************************************************)

\* The activation a has returned a result that is what it saw itself: a
\* success with the hash of the transaction whose confirmation it saw, or
\* a failure with an error when it saw none.
OwnResult(a) ==
    /\ a.results = 1
    /\ IF Len(a.net.confirmed) > 0
       THEN /\ a.result.success
            /\ HasField(a.result, "txHash")
            /\ a.result.txHash = a.net.confirmed[1].hash
            /\ a.result.ordersCreated = a.net.requested
            /\ ~HasField(a.result, "error")
       ELSE /\ ~a.result.success
            /\ HasField(a.result, "error")
            /\ a.result.error[1] \in FailureMessages
            /\ Len(a.net.attempts) > 0 =>
                  /\ a.result.error[1] = "All transaction attempts failed: "
                  /\ a.net.attempts = AllAttempts

\* The activation a read its balance while the other was under way, had
\* the balance it needed, and every transaction it tried was refused.
RefusedRival(a) ==
    /\ a.pc = "done"
    /\ a.net.raced
    /\ a.net.balanceOf = 1
    /\ Len(a.net.attempts) = 2 * maxRetries
    /\ Len(a.net.confirmed) = 0

\* C26: when two calls of createBatchOrders for the same user run at the
\* same time, both pass the balance check on the same balance, and the
\* chain refuses the transactions of the second, the second returns a
\* result with success = false (the failure of the transaction), no
\* exception leaves createBatchOrders, and the successful result of the
\* first stays what it was.
C26_RefusedRivalFailsCleanly ==
    /\ [](\A a \in {call, parked} :
            /\ a.pc # "threw"
            /\ a.pc = "done" => OwnResult(a)
            /\ RefusedRival(a) =>
                  /\ ~a.result.success
                  /\ a.result.error[1] = "All transaction attempts failed: ")
    /\ [][\A a \in {call, parked} :
            a.pc = "done" => a \in {call', parked'}]_vars

\* The first call has returned its success; the second, which read the
\* same balance while the first was under way, has returned its failure.
C26_Witness ==
    \E first \in {call, parked} : \E second \in {call, parked} :
        /\ first.pc = "done"
        /\ first.result.success
        /\ first.net.balanceOf = 1
        /\ first.net.attempts = <<"sell">>
        /\ RefusedRival(second)
        /\ ~second.result.success

\* C32 as claimed: however two calls for the same owner interleave from the
\* not approved state, setApprovalForAll is sent at most once in all, and no
\* call sends it when the marketplace is already approved.
C32_OneApprovalInAll ==
    /\ call.net.setApprovalForAll + parked.net.setApprovalForAll <= 1
    /\ \A a \in {call, parked} : a.pc = "setApprovalForAll" => ~approved

\* C31 as claimed: within one call, a further limitOrders transaction is
\* submitted only when none of the earlier ones was mined, so at most one
\* batch transaction of the call is ever mined.
C31_AtMostOneMined ==
    /\ Cardinality(chain) <= 1
    /\ call.pc \in {"estimateGas", "limitOrders"} => chain = {}

(***************************************************************************)
(* checkRateLimit: what a rejection leaves behind and what it returns      *)
(***************************************************************************)

\* The moment a history at its limit of n entries lets a call in again: when
\* the n-th newest entry is windowMs old.
AdmissibleAt(history, n, windowMs) == history[Len(history) - n + 1] + windowMs

\* The timestamps of a history that are newer than the start of the window.
Unexpired(history, windowStart) ==
    LET kept == {i \in 1..Len(history) : history[i] > windowStart}
    IN  [j \in 1..Cardinality(kept) |->
            history[CHOOSE i \in kept :
                       Cardinality({h \in kept : h <= i}) = j]]

\* C33: a rejected checkRateLimit call records no timestamp: the history it
\* leaves is the history it found without the expired entries, so the moment
\* the key becomes admissible again is not moved by the rejected call.
C33_RejectionRecordsNothing ==
    (lastCheck.key \in Keys /\ ~lastCheck.allowed) =>
        /\ lastCheck.stored =
               Unexpired(lastCheck.before, lastCheck.at - lastCheck.windowMs)
        /\ rateLimits[lastCheck.key] = lastCheck.stored
        /\ lastCheck.at \notin Range(lastCheck.stored) \ Range(lastCheck.before)
        /\ AdmissibleAt(lastCheck.stored, lastCheck.maxRequests,
                        lastCheck.windowMs)
              = AdmissibleAt(lastCheck.before, lastCheck.maxRequests,
                             lastCheck.windowMs)

\* A call is rejected a second or more after the key filled up, while the
\* oldest counted call is still in the window.
C33_Witness ==
    /\ lastCheck.key \in Keys
    /\ ~lastCheck.allowed
    /\ lastCheck.at >= lastCheck.before[Len(lastCheck.before)] + 1000
    /\ rateLimits[lastCheck.key] = lastCheck.before

\* A sequence of timestamps in non-decreasing order.
NonDecreasing(history) ==
    \A i \in 1..Len(history) : \A j \in i..Len(history) :
        history[i] <= history[j]

\* C34: every rejection carries a reset time r, 1 <= r <= ceil(windowMs /
\* 1000), and the retained history of every key is in non-decreasing order
\* of its timestamps, its first element the oldest.
C34_ResetTimeInRange ==
    /\ (lastCheck.key \in Keys /\ ~lastCheck.allowed) =>
          /\ HasField(lastCheck.returned, "resetTime")
          /\ lastCheck.returned.resetTime >= 1
          /\ lastCheck.returned.resetTime
                <= CeilDiv(lastCheck.windowMs, 1000)
    /\ \A key \in DOMAIN rateLimits :
          /\ NonDecreasing(rateLimits[key])
          /\ rateLimits[key] # <<>> =>
                rateLimits[key][1] = MinOf(Range(rateLimits[key]))

\* A rejection at the very millisecond the oldest counted call was made: the
\* reset time is the whole window.
C34_Witness ==
    /\ lastCheck.key \in Keys
    /\ ~lastCheck.allowed
    /\ lastCheck.stored[1] = lastCheck.at
    /\ lastCheck.at > 0
    /\ lastCheck.returned.resetTime = CeilDiv(RLWindowMs, 1000)

(***************************************************************************)
(* createBatchOrders: what admission costs                                 *)
(***************************************************************************)

\* The entries of a history made in the windowMs milliseconds from t on.
InWindowFrom(history, t, windowMs) ==
    {i \in 1..Len(history) : history[i] >= t /\ history[i] < t + windowMs}

\* C35: an admitted createBatchOrders call has taken one slot of the key of
\* the wallet address it was made with, the call's time appended to the
\* unexpired history, and keeps it whatever the call does afterwards and
\* however it ends; no key ever holds more than 5 admissions made within 60
\* seconds of each other.
C35_AdmissionTakesASlot ==
    /\ (call.pc # "idle" /\ lastCheck.allowed) =>
          /\ lastCheck.key \in {BatchKey(Address), BatchKey(Null)}
          /\ rateLimits[lastCheck.key] =
                Append(Unexpired(lastCheck.before,
                                 lastCheck.at - BatchWindowMs),
                       lastCheck.at)
    /\ (call.pc # "idle" /\ ~lastCheck.allowed) =>
          Len(rateLimits[lastCheck.key]) = BatchMaxRequests
    /\ \A key \in DOMAIN rateLimits :
          \A i \in 1..Len(rateLimits[key]) :
             Cardinality(InWindowFrom(rateLimits[key], rateLimits[key][i],
                                      BatchWindowMs)) <= BatchMaxRequests

\* The fifth admitted call of a connected wallet has failed after admission
\* (nothing to submit, or every attempt failed): the key is full.
C35_Witness ==
    /\ Done
    /\ lastCheck.allowed
    /\ lastCheck.key = BatchKey(Address)
    /\ ~call.result.success
    /\ call.result.error[1] \in {"No valid orders to create",
                                 "All transaction attempts failed: "}
    /\ Len(rateLimits[lastCheck.key]) = BatchMaxRequests

\* The orders of the batch a successful call submitted are counted in its
\* result: at least 1 and at most the number of requests passed in.
OrdersCreatedOnSuccess ==
    /\ HasField(call.result, "ordersCreated")
    /\ call.result.ordersCreated >= 1
    /\ call.result.ordersCreated <= call.net.requested

\* C36 as claimed: the result of a successful call has ordersCreated equal
\* to the number of orders of the submitted batch, at least 1 and at most
\* the number of requests passed in; the result of a failed call has
\* ordersCreated 0.
C36_OrdersCreated ==
    Done =>
        IF call.result.success
        THEN OrdersCreatedOnSuccess
        ELSE /\ HasField(call.result, "ordersCreated")
             /\ call.result.ordersCreated = 0

(***************************************************************************)
(* Properties of the controller (checked under ControllerSpec).            *)
(***************************************************************************)

\* What the connected wallet holds on chain: 3 of token 7.
Holdings == [tokenId \in {7} |-> 3]

\* A request with a valid token id, price and quantity of which the wallet
\* holds the quantity on chain.
ValidAndHeld(request) ==
    /\ ValidateInput(Number(request.tokenId), "tokenId").isValid
    /\ ValidateInput(PriceNumber(request.priceInEth), "price").isValid
    /\ ValidateInput(Number(request.amount), "quantity").isValid
    /\ request.tokenId \in DOMAIN Holdings
    /\ Holdings[request.tokenId] >= request.amount

\* C37 as claimed: when createSellOrders is called with the wallet connected
\* after loadPlayerItems has completed, every valid request for a quantity
\* the wallet holds on chain is among the requests passed on to
\* marketplaceService.createBatchOrders.
C37_ForwardsHeldRequests ==
    controller.sell.loaded =>
        \A i \in 1..Len(controller.sell.requests) :
            ValidAndHeld(controller.sell.requests[i]) =>
                \E j \in 1..Len(controller.sell.validatedRequests) :
                    /\ controller.sell.validatedRequests[j].tokenId =
                          controller.sell.requests[i].tokenId
                    /\ controller.sell.validatedRequests[j].amount =
                          controller.sell.requests[i].amount

\* The methods that set isLoading, and those of them that are under way.
LoadingOperations ==
    {"initialize", "connectWallet", "loadItems", "loadPlayerItems",
     "createSellOrders"}
UnderWay ==
    \E t \in Tasks : \E i \in DOMAIN controller.tasks[t] :
        /\ controller.tasks[t][i].op \in LoadingOperations
        /\ controller.tasks[t][i].pc \notin {"resolved", "rejected"}

\* C38 as claimed: state.isLoading is true whenever at least one of the
\* loading operations is still in progress, however they nest and
\* interleave.
C38_LoadingWhileInProgress ==
    UnderWay => controller.state.isLoading

(***************************************************************************)
(* Properties of the item fetches (checked under ApiSpec).                 *)
(***************************************************************************)

\* The requests to the API that are outstanding.
Outstanding == {id \in DOMAIN api.promises : api.promises[id] = "inFlight"}

\* A call of fetchEstforItems is made in this step.
ItemsCalled == api'.last # api.last \/ api'.issued # api.issued

\* C39: while a request for the items is in flight every further call of
\* fetchEstforItems shares it: at most one request is outstanding at any
\* time and it is the pending entry; a call made meanwhile makes no request
\* and takes no slot of key 'api-items'; a request takes one slot, when it
\* is made; and the pending entry is removed when the owner of the settled
\* request resumes, whether the request succeeded or failed.
C39_SharesInFlightRequest ==
    /\ [](Cardinality(Outstanding) <= 1)
    /\ [](\A id \in Outstanding :
            /\ CacheKey \in DOMAIN api.pending
            /\ api.pending[CacheKey] = id
            /\ ~GetFromCache(api.cache, CacheKey, now).hit)
    /\ [](CacheKey \in DOMAIN api.pending =>
            api.pending[CacheKey] \in DOMAIN api.promises)
    /\ [][(Outstanding # {} /\ ItemsCalled) =>
            /\ api'.last.did = "shared"
            /\ api'.last.promise \in Outstanding
            /\ api'.promises = api.promises
            /\ api'.issued = api.issued
            /\ rateLimits' = rateLimits]_vars
    /\ [][\A id \in DOMAIN api.promises' \ DOMAIN api.promises :
            api'.promises[id] = "inFlight" =>
               /\ History(rateLimits', ItemsKey) =
                     Append(Unexpired(History(rateLimits, ItemsKey),
                                      now - ItemsWindowMs), now)
               /\ Cardinality(DOMAIN api.promises' \ DOMAIN api.promises)
                     = 1]_vars
    /\ [][rateLimits' # rateLimits => api'.issued = api.issued + 1]_vars
    /\ [][\A id \in DOMAIN api.promises \ DOMAIN api.promises' :
            /\ api.promises[id] # "inFlight"
            /\ CacheKey \notin DOMAIN api.pending']_vars

\* A call has joined a request that is in flight, after an earlier request
\* had failed and its pending entry had been removed.
C39_Witness ==
    /\ api.last.did = "shared"
    /\ api.last.promise \in Outstanding
    /\ api.last.promise >= 2
    /\ Len(History(rateLimits, ItemsKey)) >= 2

=============================================================================
